---- MODULE Spec2Model ----
(***************************************************************************)
(* Model of the reQ query-execution engine: the cost-based query planner   *)
(* (planner/query_planner.py), the MCP orchestrator (mcp/orchestrator.py), *)
(* the three-stage security bridge (security/mcp_bridge.py) and the        *)
(* request pipeline that composes them (routers/query.py).                 *)
(***************************************************************************)
EXTENDS Integers, Sequences, FiniteSets, TLC

VARIABLES
    dag,            \* SemanticOperatorDAG handed to the planner: [operators, edges]
    deadline_ms,    \* deadline of the request, 0 when absent (None)
    cache,          \* keys for which the cache store holds a value
    plan,           \* ExecutionPlan built by QueryPlanner.plan
    plan_status,    \* "none" | "ok" | "DAGError"
    exec_status,    \* MCPOrchestrator.execute: "idle" | "running" | "done" | "raised"
    group_pos,      \* position in plan.parallel_groups of the group being gathered
    task,           \* per 0-based step index: "new" | "pending" | "running" | an outcome
    response,       \* per step index: what a successful _execute_step returned
    mcp_request,    \* per step index: the MCPRequest _execute_step built, NoMCPRequest before
    step_results,   \* execute's step_results: operator id -> result
    errors,         \* execute's errors list
    cache_hits,     \* execute's cache_hits counter
    total_rows,     \* execute's total_rows counter
    exec_result,    \* the ExecutionResult returned by execute
    query,          \* what the patterns and heuristics of the bridge see in the query text
    user_id,        \* user_id of the request, NoUser when absent
    bridge,         \* MCPBridge settings: neural_enabled, neural_model, llm_enabled
    redis_count,    \* value of the user's rate-limit key in Redis, NoKey when unset
    val_status,     \* MCPBridge.validate: "idle" | "rate" | "stage1" | "stage2" | "stage3" | "done" | "raised"
    stage_result,   \* per stage 1..3: "not_run" or the ThreatLevel the stage returned
    issues,         \* validate's issues list
    validation,     \* the SecurityValidation returned by validate
    req_status,     \* process_query: "none" (no request) | "received" | "planning" | "validating" | "executing" | "responded"
    reply,          \* the QueryResult process_query returned
    text,           \* what the extractors and the intent patterns of nl2op see in the query text
    parsed,         \* outcome of NL2Operator.parse: status "none" | "ok" | "raised", and the DAG's fields
    redis_key,      \* the Redis key rate_limit:{user_id}: [value, expires]
    handler,        \* the requests of the user in RateLimitMiddleware: [pc, current, allowed]
    admitted,       \* requests of the user allowed since the key's window began
    circuit_breaker, \* the CircuitBreaker: [state, failures, last_failure_time, half_open_successes]
    now,            \* datetime.now(), in seconds
    event,          \* the last call on the breaker, or "tick", or "none"
    attempt         \* what the last can_attempt returned

planner_vars == <<dag, deadline_ms, cache, plan, plan_status>>

orch_vars == <<exec_status, group_pos, task, response, mcp_request, step_results, errors,
               cache_hits, total_rows, exec_result>>

bridge_vars == <<query, user_id, bridge, redis_count, val_status, stage_result, issues,
                 validation>>

request_vars == <<req_status, reply, text, parsed>>

service_vars == <<redis_key, handler, admitted, circuit_breaker, now, event, attempt>>

vars == <<dag, deadline_ms, cache, plan, plan_status, exec_status, group_pos, task,
          response, mcp_request, step_results, errors, cache_hits, total_rows, exec_result,
          query, user_id, bridge, redis_count, val_status, stage_result, issues,
          validation, req_status, reply, text, parsed, redis_key, handler, admitted,
          circuit_breaker, now, event, attempt>>

(***************************************************************************)
(* Bounds of the model.                                                    *)
(***************************************************************************)
MaxOps == 3         \* operators in an input DAG
MaxEdges == 2       \* edges in an input DAG
MaxExecOps == 3     \* operators of a DAG that is planned and then executed
MaxExecEdges == 2   \* edges of a DAG that is planned and then executed
MaxCostOps == 2     \* operators of a DAG whose costs are estimated over the region table

(***************************************************************************)
(* Costs are milliseconds in fixed point: CostScale units are one ms, so   *)
(* that the factors 0.05, 0.5, 0.6 and 1.5 of the planner stay exact.      *)
(***************************************************************************)
CostScale == 100 * 1000

None == 0           \* deadline_ms = None (and 0) are both falsy in plan()

(***************************************************************************)
(* Sequence helpers.                                                       *)
(***************************************************************************)
Range(s) == {s[k] : k \in 1..Len(s)}

InSeq(x, s) == \E k \in 1..Len(s) : s[k] = x

RECURSIVE SumSeq(_)
SumSeq(s) == IF s = <<>> THEN 0 ELSE Head(s) + SumSeq(Tail(s))

\* position (1-based) of the first occurrence of x in s, 0 when absent
IndexOf(x, s) ==
    IF InSeq(x, s) THEN CHOOSE k \in 1..Len(s) : s[k] = x /\ \A j \in 1..(k-1) : s[j] # x
    ELSE 0

(***************************************************************************)
(* Operator kinds and the planner's static tables.                         *)
(***************************************************************************)
SPATIAL_FILTER == "spatial_filter"
TEMPORAL_FILTER == "temporal_filter"
PARAMETER_FILTER == "parameter_filter"
QC_FILTER == "qc_filter"
FLOAT_FILTER == "float_filter"
AGGREGATE == "aggregate"
GROUP_BY == "group_by"
COMPUTE_GRADIENT == "compute_gradient"
COMPUTE_MLD == "compute_mld"
COMPUTE_ANOMALY == "compute_anomaly"
COMPUTE_STATS == "compute_stats"
SEMANTIC_SEARCH == "semantic_search"
JOIN == "join"
VISUALIZE == "visualize"

base_costs(type) ==
    CASE type = SPATIAL_FILTER -> 50
      [] type = TEMPORAL_FILTER -> 30
      [] type = PARAMETER_FILTER -> 20
      [] type = QC_FILTER -> 15
      [] type = FLOAT_FILTER -> 25
      [] type = AGGREGATE -> 100
      [] type = GROUP_BY -> 80
      [] type = COMPUTE_GRADIENT -> 150
      [] type = COMPUTE_MLD -> 200
      [] type = COMPUTE_ANOMALY -> 180
      [] type = COMPUTE_STATS -> 100
      [] type = SEMANTIC_SEARCH -> 300
      [] type = JOIN -> 150
      [] type = VISUALIZE -> 250
      [] OTHER -> 50

server_assignments(type) ==
    CASE type \in {COMPUTE_GRADIENT, COMPUTE_MLD, COMPUTE_ANOMALY, COMPUTE_STATS} -> "profile"
      [] type = SEMANTIC_SEARCH -> "semantic"
      [] type = VISUALIZE -> "visualization"
      [] OTHER -> "structured"

(***************************************************************************)
(* SemanticOperatorDAG accessors (models/operators.py).  Operator ids are  *)
(* the integers 1..n in the order of dag.operators; an edge is             *)
(* [from_id, to_id].                                                       *)
(***************************************************************************)
OpIds(d) == {d.operators[k].id : k \in 1..Len(d.operators)}

get_operator(d, op_id) ==
    d.operators[CHOOSE k \in 1..Len(d.operators) : d.operators[k].id = op_id]

RECURSIVE get_dependencies(_, _)
get_dependencies(d, op_id) ==
    IF d.edges = <<>> THEN <<>>
    ELSE LET e == Head(d.edges)
             rest == get_dependencies([d EXCEPT !.edges = Tail(d.edges)], op_id)
         IN IF e.to_id = op_id THEN <<e.from_id>> \o rest ELSE rest

\* Kahn's algorithm with a FIFO queue
RECURSIVE KahnLoop(_, _, _, _)
KahnLoop(d, queue, in_degree, result) ==
    IF queue = <<>> THEN result
    ELSE LET node == Head(queue)
             out == SelectSeq(d.edges, LAMBDA e : e.from_id = node)
             targets == [k \in 1..Len(out) |-> out[k].to_id]
             in_degree2 == [v \in DOMAIN in_degree |->
                               in_degree[v] - Cardinality({k \in 1..Len(out) : out[k].to_id = v})]
             ready == SelectSeq(targets, LAMBDA v : in_degree2[v] = 0)
         IN KahnLoop(d, Tail(queue) \o ready, in_degree2, Append(result, node))

\* [ok |-> FALSE] stands for the DAGError raised on a cycle or a dangling edge
topological_sort(d) ==
    LET ids == [k \in 1..Len(d.operators) |-> d.operators[k].id]
        dangling == \E k \in 1..Len(d.edges) :
                        d.edges[k].from_id \notin OpIds(d) \/ d.edges[k].to_id \notin OpIds(d)
        in_degree == [v \in OpIds(d) |->
                         Cardinality({k \in 1..Len(d.edges) : d.edges[k].to_id = v})]
        queue == SelectSeq(ids, LAMBDA v : in_degree[v] = 0)
        result == KahnLoop(d, queue, in_degree, <<>>)
    IN IF dangling THEN [ok |-> FALSE, order |-> <<>>]
       ELSE IF Len(result) # Len(d.operators) THEN [ok |-> FALSE, order |-> <<>>]
       ELSE [ok |-> TRUE, order |-> result]

(***************************************************************************)
(* QueryPlanner.                                                           *)
(***************************************************************************)
\* the sha256 digest of "<kind>:<sorted-key JSON of params>" is modelled by
\* the pair it is computed from (distinct inputs give distinct keys)
_generate_cache_key(op) == <<op.type, op.params>>

HasBbox(op) == "bbox" \in DOMAIN op.params /\ op.params.bbox # <<>>

\* cost of one operator as _estimate_costs assigns it (self.memory is None,
\* so no historical blend takes place)
AdjustedCost(op, store) ==
    LET base == base_costs(op.type)
        adjusted ==
            IF op.type = SPATIAL_FILTER /\ HasBbox(op)
            THEN LET bbox == op.params.bbox
                     area == (bbox[3] - bbox[1]) * (bbox[4] - bbox[2])
                 IN base * (1000 + area) * (CostScale \div 1000)
            ELSE IF op.type = TEMPORAL_FILTER
            THEN (base * CostScale * 3) \div 2
            ELSE base * CostScale
        cache_available == _generate_cache_key(op) \in store
    IN IF cache_available THEN adjusted \div 20 ELSE adjusted

_estimate_costs(d, store) ==
    [d EXCEPT !.operators =
        [k \in 1..Len(d.operators) |->
            [d.operators[k] EXCEPT !.estimated_cost = AdjustedCost(d.operators[k], store)]]]

\* walk of the topological order; i is the 0-based position, groups hold
\* 0-based positions of execution_order
RECURSIVE GroupLoop(_, _, _, _, _)
GroupLoop(d, execution_order, i, groups, current_group) ==
    IF i >= Len(execution_order)
    THEN IF current_group # <<>> THEN Append(groups, current_group) ELSE groups
    ELSE LET op_id == execution_order[i + 1]
             deps == get_dependencies(d, op_id)
             completed == {execution_order[k] : k \in 1..i}
             can_parallel ==
                 \A g \in 1..Len(current_group) :
                     LET group_op_id == execution_order[current_group[g] + 1]
                     IN ~(InSeq(group_op_id, deps)
                          \/ InSeq(op_id, get_dependencies(d, group_op_id)))
         IN IF \A k \in 1..Len(deps) : deps[k] \in completed
            THEN IF current_group = <<>>
                 THEN GroupLoop(d, execution_order, i + 1, groups, <<i>>)
                 ELSE IF can_parallel
                 THEN GroupLoop(d, execution_order, i + 1, groups, Append(current_group, i))
                 ELSE GroupLoop(d, execution_order, i + 1, Append(groups, current_group), <<i>>)
            ELSE GroupLoop(d, execution_order, i + 1,
                           IF current_group # <<>> THEN Append(groups, current_group) ELSE groups,
                           <<i>>)

_identify_parallel_groups(d, execution_order) ==
    GroupLoop(d, execution_order, 0, <<>>, <<>>)

Max(a, b) == IF a >= b THEN a ELSE b

\* Python's int(): truncation towards zero of a fixed-point cost
IntOf(c) == IF c >= 0 THEN c \div CostScale ELSE -((-c) \div CostScale)

_create_step(op, d) ==
    [operator |-> op,
     mcp_server |-> server_assignments(op.type),
     cache_key |-> _generate_cache_key(op),
     timeout |-> Max(1000, IntOf(op.estimated_cost * 3)),
     depends_on |-> get_dependencies(d, op.id)]

StepCosts(steps) == [k \in 1..Len(steps) |-> steps[k].operator.estimated_cost]

TotalCost(steps) == SumSeq(StepCosts(steps))

SetParam(params, key, value) ==
    [k \in DOMAIN params \cup {key} |-> IF k = key THEN value ELSE params[k]]

Half == <<1, 2>>    \* the float 0.5 of sample_rate

ReducePrecision(step) ==
    IF step.operator.type \in {COMPUTE_GRADIENT, COMPUTE_MLD, COMPUTE_ANOMALY}
    THEN [step EXCEPT !.operator.params = SetParam(@, "fast_mode", TRUE),
                      !.operator.estimated_cost = @ \div 2]
    ELSE step

AddSampling(step) ==
    IF step.operator.type \in {SPATIAL_FILTER, TEMPORAL_FILTER}
    THEN [step EXCEPT !.operator.params = SetParam(@, "sample_rate", Half),
                      !.operator.estimated_cost = (@ * 3) \div 5]
    ELSE step

\* the three strategies of _optimize_for_deadline, past its early return
Degrade(steps, deadline) ==
    LET steps1 == IF 2 * TotalCost(steps) > 3 * deadline * CostScale
                  THEN SelectSeq(steps, LAMBDA s : s.operator.type # VISUALIZE)
                  ELSE steps
        steps2 == [k \in 1..Len(steps1) |-> ReducePrecision(steps1[k])]
    IN IF TotalCost(steps2) > deadline * CostScale
       THEN [k \in 1..Len(steps2) |-> AddSampling(steps2[k])]
       ELSE steps2

\* an optimization without the early return for a plan within its deadline
_optimize_for_deadline_NoEarlyReturn(steps, deadline) == Degrade(steps, deadline)

_optimize_for_deadline(steps, deadline) ==
    IF TotalCost(steps) <= deadline * CostScale THEN steps
    ELSE Degrade(steps, deadline)

NoPlan ==
    [steps |-> <<>>, estimated_cost |-> 0, parallel_groups |-> <<>>,
     deadline_ms |-> None, execution_order |-> <<>>]

\* steps built in the order of dag.operators instead of the topological order
BuildSteps_ListOrder(d, execution_order) ==
    [k \in 1..Len(d.operators) |-> _create_step(d.operators[k], d)]

BuildSteps(d, execution_order) ==
    [k \in 1..Len(execution_order) |-> _create_step(get_operator(d, execution_order[k]), d)]

\* a plan() that goes on with whatever order the sort left behind
PlanStatus_Swallowed(sorted) == "ok"

\* plan() has no handler around dag.topological_sort(): its DAGError leaves
\* plan()
PlanStatus(sorted) == IF sorted.ok THEN "ok" ELSE "DAGError"

\* QueryPlanner.plan: the plan, and the DAG whose operators it mutated
PlanOf(d, deadline, store) ==
    LET d1 == _estimate_costs(d, store)
        sorted == topological_sort(d1)
        execution_order == sorted.order
        parallel_groups == _identify_parallel_groups(d1, execution_order)
        steps == BuildSteps(d1, execution_order)
        total_cost == TotalCost(steps)
        degrade == deadline # None /\ total_cost > deadline * CostScale
        steps_final == IF degrade THEN _optimize_for_deadline(steps, deadline) ELSE steps
        mutated(op) ==
            IF \E k \in 1..Len(steps_final) : steps_final[k].operator.id = op.id
            THEN steps_final[CHOOSE k \in 1..Len(steps_final) :
                                 steps_final[k].operator.id = op.id].operator
            ELSE op
    IN IF PlanStatus(sorted) # "ok"
       THEN [status |-> PlanStatus(sorted), plan |-> NoPlan, dag |-> d1]
       ELSE [status |-> "ok",
             plan |-> [steps |-> steps_final,
                       estimated_cost |-> TotalCost(steps_final),
                       parallel_groups |-> parallel_groups,
                       deadline_ms |-> deadline,
                       execution_order |-> execution_order],
             dag |-> [d1 EXCEPT !.operators =
                         [k \in 1..Len(d1.operators) |-> mutated(d1.operators[k])]]]

(***************************************************************************)
(* MCPOrchestrator.                                                        *)
(***************************************************************************)
servers == {"structured", "metadata", "profile", "semantic", "cache", "visualization"}

\* what the executor call of a step can come to: a response with
\* success=True, a response with success=False, an exception, a timeout
Outcomes == {"success", "failure", "raise", "timeout"}

NoData == "none"

NoResponse == [data |-> NoData, rows_count |-> 0, from_cache |-> FALSE]

\* the dict _execute_step returns for a response with success=True
SuccessResponses ==
    { [data |-> "list", rows_count |-> 2, from_cache |-> FALSE],
      [data |-> "dict_viz", rows_count |-> 0, from_cache |-> TRUE] }

NoMCPRequest == [operation |-> "", params |-> <<>>, timeout |-> 0]

NoFinalData == [profiles_from |-> 0, last_from |-> 0]

NoExecResult ==
    [success |-> FALSE, data |-> NoFinalData, confidence |-> <<0, 1>>,
     cache_hits |-> 0, rows_processed |-> 0, errors |-> <<>>]

OrchIdle ==
    /\ exec_status = "idle"
    /\ group_pos = 0
    /\ task = <<>>
    /\ response = <<>>
    /\ mcp_request = <<>>
    /\ step_results = <<>>
    /\ errors = <<>>
    /\ cache_hits = 0
    /\ total_rows = 0
    /\ exec_result = NoExecResult

Finished(t, i) == t[i] \in Outcomes

Dispatched(t, i) == t[i] \in Outcomes \cup {"running"}

\* group_steps = [plan.steps[i] for i in group_indices] raises IndexError
\* for an index that is no position of plan.steps
GroupInRange(p, g) ==
    \A k \in 1..Len(p.parallel_groups[g]) : p.parallel_groups[g][k] < Len(p.steps)

\* a gather that returns with the first task that finishes
GatherDone_FirstCompleted(t, group) == \E k \in 1..Len(group) : Finished(t, group[k])

\* asyncio.gather(*tasks, return_exceptions=True) returns once every task of
\* the group has finished
GatherDone(t, group) == \A k \in 1..Len(group) : Finished(t, group[k])

\* the dict step_results with step_results[key] = value assigned
Assign(map, key, value) == (key :> value) @@ map

\* the result loop of execute over one gathered group, in task order
RECURSIVE ProcessResults(_, _, _, _, _)
ProcessResults(p, group, t, resp, acc) ==
    IF group = <<>> THEN acc
    ELSE LET i == Head(group)
             step == p.steps[i + 1]
             result == resp[i]
             acc2 ==
                 IF t[i] # "success"
                 THEN [acc EXCEPT !.errors =
                          Append(@, [step |-> step.operator.id, error |-> t[i]])]
                 ELSE [acc EXCEPT
                          !.step_results = Assign(@, step.operator.id, result),
                          !.cache_hits = IF result.from_cache THEN @ + 1 ELSE @,
                          !.total_rows = IF result.rows_count # 0
                                         THEN @ + result.rows_count ELSE @]
         IN ProcessResults(p, Tail(group), t, resp, acc2)

\* data recorded for a step id: step_results.get(step_id, {}).get("data")
StepData(sr, step_id) == IF step_id \in DOMAIN sr THEN sr[step_id].data ELSE NoData

\* the step whose data ends up as profiles_data (0: none): the last step, in
\* plan order, whose data is a non-empty list or a dict with profiles or data
RECURSIVE ProfilesFrom(_, _, _)
ProfilesFrom(steps, sr, found) ==
    IF steps = <<>> THEN found
    ELSE LET step_id == Head(steps).operator.id
         IN ProfilesFrom(Tail(steps), sr,
                IF StepData(sr, step_id) \in {"list", "dict_profiles", "dict_data"}
                THEN step_id ELSE found)

\* final_data: which step supplies "profiles" and whether the last step's data
\* is laid over it (or stands alone)
FinalData(p, sr) ==
    IF p.steps = <<>> THEN NoFinalData
    ELSE LET last_step_id == p.steps[Len(p.steps)].operator.id
             last_data == StepData(sr, last_step_id)
             profiles == ProfilesFrom(p.steps, sr, 0)
         IN IF profiles # 0
            THEN [profiles_from |-> profiles,
                  last_from |-> IF last_data \in {"dict_profiles", "dict_data", "dict_viz"}
                                THEN last_step_id ELSE 0]
            ELSE [profiles_from |-> 0,
                  last_from |-> IF last_data # NoData THEN last_step_id ELSE 0]

\* the ratio of the failed steps instead of its complement
Confidence_FailedRatio(errs, steps) ==
    IF steps # <<>> THEN <<Len(errs), Len(steps)>> ELSE <<0, 1>>

\* confidence = 1.0 - len(errors)/len(plan.steps) if plan.steps else 0.0, as
\* the fraction <<numerator, denominator>>
Confidence(errs, steps) ==
    IF steps # <<>> THEN <<Len(steps) - Len(errs), Len(steps)>> ELSE <<0, 1>>

Success(errs) == Len(errs) = 0

Aggregate(p, acc) ==
    [success |-> Success(acc.errors),
     data |-> FinalData(p, acc.step_results),
     confidence |-> Confidence(acc.errors, p.steps),
     cache_hits |-> acc.cache_hits,
     rows_processed |-> acc.total_rows,
     errors |-> acc.errors]

\* the for loop of execute reaching group g with the locals acc: the groups
\* are over (aggregate and return), the group names a missing step
\* (IndexError leaves execute), or its tasks are created and gathered
EnterGroup(g, t, acc) ==
    /\ group_pos' = g
    /\ step_results' = acc.step_results
    /\ errors' = acc.errors
    /\ cache_hits' = acc.cache_hits
    /\ total_rows' = acc.total_rows
    /\ IF g > Len(plan.parallel_groups)
       THEN /\ exec_status' = "done"
            /\ exec_result' = Aggregate(plan, acc)
            /\ task' = t
       ELSE IF ~GroupInRange(plan, g)
       THEN /\ exec_status' = "raised"
            /\ exec_result' = NoExecResult
            /\ task' = t
       ELSE /\ exec_status' = "running"
            /\ exec_result' = NoExecResult
            /\ task' = [i \in DOMAIN t |->
                           IF InSeq(i, plan.parallel_groups[g]) THEN "pending" ELSE t[i]]

\* orchestrator.execute(plan) up to its first await
ExecuteStart ==
    /\ req_status \in {"none", "executing"}
    /\ plan_status = "ok"
    /\ exec_status = "idle"
    /\ response' = [i \in 0..(Len(plan.steps) - 1) |-> NoResponse]
    /\ mcp_request' = [i \in 0..(Len(plan.steps) - 1) |-> NoMCPRequest]
    /\ EnterGroup(1, [i \in 0..(Len(plan.steps) - 1) |-> "new"],
                  [step_results |-> <<>>, errors |-> <<>>, cache_hits |-> 0, total_rows |-> 0])
    /\ UNCHANGED planner_vars
    /\ UNCHANGED bridge_vars
    /\ UNCHANGED request_vars
    /\ UNCHANGED service_vars

\* the tasks gather creates start in the order of the group (the event loop
\* runs its ready queue first in, first out)
NextToStart(t, group, i) ==
    \E k \in 1..Len(group) :
        /\ group[k] = i
        /\ \A j \in 1..(k - 1) : Dispatched(t, group[j])

RECURSIVE InjectInputData_FirstRecorded(_, _, _)
RECURSIVE InjectInputData(_, _, _)
\* an injection that stops at the first dependency with a recorded result
InjectInputData_FirstRecorded(params, depends_on, previous_results) ==
    IF depends_on = <<>> THEN params
    ELSE IF Head(depends_on) \in DOMAIN previous_results
    THEN SetParam(params, "input_data", previous_results[Head(depends_on)].data)
    ELSE InjectInputData_FirstRecorded(params, Tail(depends_on), previous_results)

\* the loop `for dep_id in step.depends_on` over the copy of the params
InjectInputData(params, depends_on, previous_results) ==
    IF depends_on = <<>> THEN params
    ELSE LET dep_id == Head(depends_on)
         IN InjectInputData(
                IF dep_id \in DOMAIN previous_results
                THEN SetParam(params, "input_data", previous_results[dep_id].data)
                ELSE params,
                Tail(depends_on), previous_results)

\* MCPRequest(operation=op_type_str, params=params, timeout=step.timeout)
MCPRequest(step, previous_results) ==
    [operation |-> step.operator.type,
     params |-> InjectInputData(step.operator.params, step.depends_on, previous_results),
     timeout |-> step.timeout]

\* a dispatch that builds the request without looking the server up
Dispatch_NoLookup(i) ==
    /\ exec_status = "running"
    /\ task[i] = "pending"
    /\ NextToStart(task, plan.parallel_groups[group_pos], i)
    /\ task' = [task EXCEPT ![i] = "running"]
    /\ mcp_request' = [mcp_request EXCEPT
                          ![i] = MCPRequest(plan.steps[i + 1], step_results)]
    /\ UNCHANGED <<response, exec_status, group_pos, step_results, errors, cache_hits,
                   total_rows, exec_result>>
    /\ UNCHANGED planner_vars
    /\ UNCHANGED bridge_vars
    /\ UNCHANGED request_vars
    /\ UNCHANGED service_vars

\* a task of the gathered group starts: _execute_step up to the executor call
Dispatch(i) ==
    /\ exec_status = "running"
    /\ task[i] = "pending"
    /\ NextToStart(task, plan.parallel_groups[group_pos], i)
    /\ IF plan.steps[i + 1].mcp_server \in servers
       THEN /\ task' = [task EXCEPT ![i] = "running"]
            /\ mcp_request' = [mcp_request EXCEPT
                                  ![i] = MCPRequest(plan.steps[i + 1], step_results)]
       ELSE /\ task' = [task EXCEPT ![i] = "raise"]
            /\ mcp_request' = mcp_request
    /\ UNCHANGED <<response, exec_status, group_pos, step_results, errors, cache_hits,
                   total_rows, exec_result>>
    /\ UNCHANGED planner_vars
    /\ UNCHANGED bridge_vars
    /\ UNCHANGED request_vars
    /\ UNCHANGED service_vars

\* a task that stores its own result when its executor call ends
Finish_WritesResult(i, outcome, result) ==
    /\ exec_status = "running"
    /\ task[i] = "running"
    /\ task' = [task EXCEPT ![i] = outcome]
    /\ response' = [response EXCEPT ![i] = IF outcome = "success" THEN result ELSE @]
    /\ step_results' = IF outcome = "success"
                       THEN Assign(step_results, plan.steps[i + 1].operator.id, result)
                       ELSE step_results
    /\ UNCHANGED <<mcp_request, exec_status, group_pos, errors, cache_hits,
                   total_rows, exec_result>>
    /\ UNCHANGED planner_vars
    /\ UNCHANGED bridge_vars
    /\ UNCHANGED request_vars
    /\ UNCHANGED service_vars

\* the executor call of a running task ends
Finish(i, outcome, result) ==
    /\ exec_status = "running"
    /\ task[i] = "running"
    /\ task' = [task EXCEPT ![i] = outcome]
    /\ response' = [response EXCEPT ![i] = IF outcome = "success" THEN result ELSE @]
    /\ UNCHANGED <<mcp_request, exec_status, group_pos, step_results, errors, cache_hits,
                   total_rows, exec_result>>
    /\ UNCHANGED planner_vars
    /\ UNCHANGED bridge_vars
    /\ UNCHANGED request_vars
    /\ UNCHANGED service_vars

\* gather returns: the results of the group are processed and the loop goes on
GatherReturn ==
    /\ exec_status = "running"
    /\ GatherDone(task, plan.parallel_groups[group_pos])
    /\ EnterGroup(group_pos + 1, task,
                  ProcessResults(plan, plan.parallel_groups[group_pos], task, response,
                                 [step_results |-> step_results, errors |-> errors,
                                  cache_hits |-> cache_hits, total_rows |-> total_rows]))
    /\ UNCHANGED <<response, mcp_request>>
    /\ UNCHANGED planner_vars
    /\ UNCHANGED bridge_vars
    /\ UNCHANGED request_vars
    /\ UNCHANGED service_vars

(***************************************************************************)
(* MCPBridge.  The query text is represented by what the bridge reads off  *)
(* it: whether a pattern of each regex family matches, how many suspicious *)
(* keywords it holds, and the three findings of the heuristic check.       *)
(***************************************************************************)
SAFE == "safe"
SUSPICIOUS == "suspicious"
BLOCKED == "blocked"

NoUser == ""

NoKey == -1

Queries ==
    [sql_injection : BOOLEAN, data_exfil : BOOLEAN, prompt_injection : BOOLEAN,
     keywords : {0, 1, 3}, too_long : BOOLEAN, special_chars : BOOLEAN, encoded : BOOLEAN]

PlainQuery ==
    [sql_injection |-> FALSE, data_exfil |-> FALSE, prompt_injection |-> FALSE,
     keywords |-> 0, too_long |-> FALSE, special_chars |-> FALSE, encoded |-> FALSE]

DefaultBridge == [neural_enabled |-> FALSE, neural_model |-> FALSE, llm_enabled |-> TRUE]

NoValidation ==
    [passed |-> FALSE, threat_level |-> SAFE, stage_reached |-> 0, confidence |-> 0,
     issues |-> <<>>]

NoReply == [success |-> FALSE, code |-> "", message |-> <<>>, data |-> NoFinalData]

\* a text in which no extractor and no intent pattern finds anything
NoYear == -1

PlainText ==
    [spatial |-> "none", relative |-> FALSE, season |-> "none", year |-> NoYear,
     date_ent |-> FALSE, parameters |-> 0, floats |-> 0, quality |-> FALSE,
     pattern |-> "none"]

NoParse ==
    [status |-> "none", raised_in |-> "", operators |-> <<>>, edges |-> <<>>,
     confidence |-> <<0, 1>>, intent |-> "", alternatives |-> <<>>]

ParseIdle ==
    /\ text = PlainText
    /\ parsed = NoParse

\* no key under rate_limit:{user_id}
NoRedisKey == [value |-> NoKey, expires |-> FALSE]

CLOSED == "closed"
OPEN == "open"
HALF_OPEN == "half_open"

\* the field defaults of the CircuitBreaker dataclass; last_failure_time
\* None is NoKey
CircuitBreaker ==
    [state |-> CLOSED, failures |-> 0, last_failure_time |-> NoKey,
     half_open_successes |-> 0]

LimiterIdle ==
    /\ redis_key = NoRedisKey
    /\ handler = <<>>
    /\ admitted = 0

BreakerIdle ==
    /\ circuit_breaker = CircuitBreaker
    /\ now = 0
    /\ event = "none"
    /\ attempt = FALSE

ServiceIdle == LimiterIdle /\ BreakerIdle

NoRequest ==
    /\ req_status = "none"
    /\ reply = NoReply
    /\ ParseIdle
    /\ ServiceIdle

BridgeIdle ==
    /\ query = PlainQuery
    /\ user_id = NoUser
    /\ bridge = DefaultBridge
    /\ redis_count = NoKey
    /\ val_status = "idle"
    /\ stage_result = [n \in 1..3 |-> "not_run"]
    /\ issues = <<>>
    /\ validation = NoValidation

\* rate_limit_check(user_id, limit) of core/redis.py on a connected client:
\* <<allowed, remaining>> and the value it leaves under the key
rate_limit_check(count, limit) ==
    IF count = NoKey THEN [value |-> <<TRUE, limit - 1>>, count |-> 1]
    ELSE IF count >= limit THEN [value |-> <<FALSE, 0>>, count |-> count]
    ELSE [value |-> <<TRUE, limit - count - 1>>, count |-> count + 1]

\* the positional arguments validate passes: f"user:{user_id}", 100, 60
RateLimitArgs == <<"user", 100, 60>>

\* rate_limit_check(user_id, limit=None) binds at most two positional arguments
RateLimitMaxArgs == 2

\* the limit validate means to apply
BridgeRateLimit == RateLimitArgs[2]

\* truth value of what `rate_ok = await rate_limit_check(...)` holds: a tuple
\* is true unless it is empty
Truthy(tuple) == Len(tuple) > 0

_stage1_pattern_check_PromptSuspicious(q) ==
    IF q.sql_injection \/ q.data_exfil
    THEN [level |-> BLOCKED, issues |-> <<"pattern detected">>]
    ELSE IF q.prompt_injection \/ q.keywords >= 1
    THEN [level |-> SUSPICIOUS, issues |-> <<"Suspicious keyword detected">>]
    ELSE [level |-> SAFE, issues |-> <<>>]

\* _stage1_pattern_check
_stage1_pattern_check(q) ==
    IF q.sql_injection
    THEN [level |-> BLOCKED, issues |-> <<"SQL injection pattern detected">>]
    ELSE IF q.data_exfil
    THEN [level |-> BLOCKED, issues |-> <<"Data exfiltration pattern detected">>]
    ELSE IF q.prompt_injection
    THEN [level |-> BLOCKED, issues |-> <<"Prompt injection pattern detected">>]
    ELSE IF q.keywords >= 3
    THEN [level |-> SUSPICIOUS, issues |-> <<"Multiple suspicious keywords detected">>]
    ELSE IF q.keywords >= 1
    THEN [level |-> SUSPICIOUS, issues |-> <<"Suspicious keyword detected">>]
    ELSE [level |-> SAFE, issues |-> <<>>]

\* _heuristic_check; the score in tenths, the confidence in hundredths
_heuristic_check(q) ==
    LET score == 10 - (IF q.too_long THEN 2 ELSE 0)
                    - (IF q.special_chars THEN 2 ELSE 0)
                    - (IF q.encoded THEN 3 ELSE 0)
        found == (IF q.too_long THEN <<"Query length exceeds recommended limit">> ELSE <<>>)
                 \o (IF q.special_chars THEN <<"High special character density">> ELSE <<>>)
                 \o (IF q.encoded THEN <<"Potentially encoded malicious content">> ELSE <<>>)
    IN [level |-> IF score < 5 THEN SUSPICIOUS ELSE SAFE,
        score |-> score * 10, issues |-> found]

\* _stage2_neural_check
_stage2_neural_check(b, q) ==
    IF ~b.neural_enabled \/ ~b.neural_model
    THEN _heuristic_check(q)
    ELSE [level |-> SAFE, score |-> 100, issues |-> <<>>]

\* _stage3_llm_check
_stage3_llm_check(q) == [level |-> SAFE, score |-> 95, issues |-> <<>>]

Returned(v) ==
    /\ val_status' = "done"
    /\ validation' = v

\* bridge.validate(query, dag, user_id) up to its first call
ValidateStart ==
    /\ req_status \in {"none", "validating"}
    /\ val_status = "idle"
    /\ val_status' = IF user_id # NoUser THEN "rate" ELSE "stage1"
    /\ issues' = <<>>
    /\ UNCHANGED <<query, user_id, bridge, redis_count, stage_result, validation>>
    /\ UNCHANGED planner_vars
    /\ UNCHANGED orch_vars
    /\ UNCHANGED request_vars
    /\ UNCHANGED service_vars

\* rate_ok = await rate_limit_check(f"user:{user_id}", 100, 60): the call binds
\* one argument too many and raises TypeError before the limiter runs
RateLimit ==
    /\ val_status = "rate"
    /\ IF Len(RateLimitArgs) > RateLimitMaxArgs
       THEN /\ val_status' = "raised"
            /\ UNCHANGED <<redis_count, validation>>
       ELSE LET r == rate_limit_check(redis_count, BridgeRateLimit)
            IN /\ redis_count' = r.count
               /\ IF ~Truthy(r.value)
                  THEN Returned([passed |-> FALSE, threat_level |-> BLOCKED,
                                 stage_reached |-> 0, confidence |-> 100,
                                 issues |-> <<"Rate limit exceeded">>])
                  ELSE /\ val_status' = "stage1"
                       /\ UNCHANGED validation
    /\ UNCHANGED <<query, user_id, bridge, stage_result, issues>>
    /\ UNCHANGED planner_vars
    /\ UNCHANGED orch_vars
    /\ UNCHANGED request_vars
    /\ UNCHANGED service_vars

\* Stage 1 and what validate does with its verdict
Stage1 ==
    /\ val_status = "stage1"
    /\ LET r == _stage1_pattern_check(query)
           issues1 == issues \o r.issues
       IN /\ stage_result' = [stage_result EXCEPT ![1] = r.level]
          /\ issues' = issues1
          /\ IF r.level = BLOCKED
             THEN Returned([passed |-> FALSE, threat_level |-> BLOCKED, stage_reached |-> 1,
                            confidence |-> 100, issues |-> issues1])
             ELSE IF r.level = SUSPICIOUS \/ bridge.neural_enabled
             THEN /\ val_status' = "stage2"
                  /\ UNCHANGED validation
             ELSE Returned([passed |-> TRUE, threat_level |-> SAFE, stage_reached |-> 1,
                            confidence |-> 100, issues |-> issues1])
    /\ UNCHANGED <<query, user_id, bridge, redis_count>>
    /\ UNCHANGED planner_vars
    /\ UNCHANGED orch_vars
    /\ UNCHANGED request_vars
    /\ UNCHANGED service_vars

\* the "All clear" return at the end of validate
AllClear(levels, found) ==
    [passed |-> TRUE, threat_level |-> SAFE,
     stage_reached |-> IF levels[1] = SAFE THEN 1 ELSE 2,
     confidence |-> 100, issues |-> found]

\* an escalation that does not look at the verdict of Stage 2
EscalateToStage3_IgnoreVerdict(level, b) == b.llm_enabled

\* `if stage2_result == ThreatLevel.SUSPICIOUS and self.llm_enabled`
EscalateToStage3(level, b) == level = SUSPICIOUS /\ b.llm_enabled

\* Stage 2 and what validate does with its verdict
Stage2 ==
    /\ val_status = "stage2"
    /\ LET r == _stage2_neural_check(bridge, query)
           issues2 == issues \o r.issues
           levels == [stage_result EXCEPT ![2] = r.level]
       IN /\ stage_result' = levels
          /\ issues' = issues2
          /\ IF r.level = BLOCKED
             THEN Returned([passed |-> FALSE, threat_level |-> BLOCKED, stage_reached |-> 2,
                            confidence |-> r.score, issues |-> issues2])
             ELSE IF EscalateToStage3(r.level, bridge)
             THEN /\ val_status' = "stage3"
                  /\ UNCHANGED validation
             ELSE Returned(AllClear(levels, issues2))
    /\ UNCHANGED <<query, user_id, bridge, redis_count>>
    /\ UNCHANGED planner_vars
    /\ UNCHANGED orch_vars
    /\ UNCHANGED request_vars
    /\ UNCHANGED service_vars

\* Stage 3 and the return that follows it
Stage3 ==
    /\ val_status = "stage3"
    /\ LET r == _stage3_llm_check(query)
           issues3 == issues \o r.issues
       IN /\ stage_result' = [stage_result EXCEPT ![3] = r.level]
          /\ issues' = issues3
          /\ Returned([passed |-> r.level = SAFE, threat_level |-> r.level,
                       stage_reached |-> 3, confidence |-> r.score, issues |-> issues3])
    /\ UNCHANGED <<query, user_id, bridge, redis_count>>
    /\ UNCHANGED planner_vars
    /\ UNCHANGED orch_vars
    /\ UNCHANGED request_vars
    /\ UNCHANGED service_vars

(***************************************************************************)
(* Inputs of the planner: DAGs of at most MaxOps operators drawn from the   *)
(* operator shapes the generator emits, with at most MaxEdges edges between *)
(* any two ids (so cyclic DAGs are among them); id 0 belongs to no operator *)
(* and makes an edge dangling.                                             *)
(***************************************************************************)
ArabianSea == <<50, 8, 77, 28>>

OperatorTemplates ==
    { [type |-> SPATIAL_FILTER, params |-> [bbox |-> ArabianSea]],
      [type |-> COMPUTE_MLD, params |-> [method |-> "temperature_threshold"]],
      [type |-> VISUALIZE, params |-> [type |-> "time_series"]] }

MakeOperator(i, t) ==
    [id |-> i, type |-> t.type, params |-> t.params,
     estimated_cost |-> base_costs(t.type) * CostScale]

\* id 0 names no operator: an edge from or to it is dangling
EdgeSet(n) == {[from_id |-> u, to_id |-> v] : u \in 0..n, v \in 0..n} \ {[from_id |-> u, to_id |-> u] : u \in 1..n}

EdgeSeqs(n) ==
    {es \in UNION {[1..m -> EdgeSet(n)] : m \in 0..MaxEdges} :
        \A a, b \in 1..Len(es) : a # b => es[a] # es[b]}

MakeDAG(ts, es) ==
    [operators |-> [i \in 1..Len(ts) |-> MakeOperator(i, ts[i])], edges |-> es]

Deadlines == {None, 100, 400}

InitPlanner ==
    /\ \E n \in 1..MaxOps :
           \E ts \in [1..n -> OperatorTemplates], es \in EdgeSeqs(n) : dag = MakeDAG(ts, es)
    /\ deadline_ms \in Deadlines
    /\ cache = {}
    /\ plan = NoPlan
    /\ plan_status = "none"
    /\ OrchIdle
    /\ BridgeIdle
    /\ NoRequest

\* QueryPlanner.plan(dag, deadline_ms)
Plan ==
    /\ req_status \in {"none", "planning"}
    /\ plan_status = "none"
    /\ LET r == PlanOf(dag, deadline_ms, cache)
       IN /\ plan' = r.plan
          /\ plan_status' = r.status
          /\ dag' = r.dag
    /\ UNCHANGED <<deadline_ms, cache>>
    /\ UNCHANGED orch_vars
    /\ UNCHANGED bridge_vars
    /\ UNCHANGED request_vars
    /\ UNCHANGED service_vars

NextPlanner == Plan

SpecPlanner == InitPlanner /\ [][NextPlanner]_vars

(***************************************************************************)
(* Deadline optimization on its own: _optimize_for_deadline applied, any   *)
(* number of times and with any deadline, to the steps of a plan.          *)
(***************************************************************************)
InitOptimize ==
    /\ \E n \in 1..MaxOps :
           \E ts \in [1..n -> OperatorTemplates] : dag = MakeDAG(ts, <<>>)
    /\ deadline_ms \in Deadlines
    /\ cache = {}
    /\ plan = NoPlan
    /\ plan_status = "none"
    /\ OrchIdle
    /\ BridgeIdle
    /\ NoRequest

\* steps = await self._optimize_for_deadline(steps, deadline): the steps are
\* replaced and the operators they share with the DAG carry the new values
Optimize(deadline) ==
    /\ req_status = "none"
    /\ plan_status = "ok"
    /\ LET steps == _optimize_for_deadline(plan.steps, deadline)
           shared(op) ==
               IF \E k \in 1..Len(steps) : steps[k].operator.id = op.id
               THEN steps[CHOOSE k \in 1..Len(steps) : steps[k].operator.id = op.id].operator
               ELSE op
       IN /\ plan' = [plan EXCEPT !.steps = steps, !.estimated_cost = TotalCost(steps)]
          /\ dag' = [dag EXCEPT !.operators = [k \in 1..Len(dag.operators) |-> shared(dag.operators[k])]]
    /\ deadline_ms' = deadline
    /\ UNCHANGED <<cache, plan_status>>
    /\ UNCHANGED orch_vars
    /\ UNCHANGED bridge_vars
    /\ UNCHANGED request_vars
    /\ UNCHANGED service_vars

NextOptimize ==
    \/ Plan
    \/ \E deadline \in Deadlines \ {None} : Optimize(deadline)

SpecOptimize == InitOptimize /\ [][NextOptimize]_vars

(***************************************************************************)
(* Cost estimation over the region table: chains of at most MaxCostOps     *)
(* operators whose spatial filters carry the bounding boxes of            *)
(* OCEAN_REGIONS (nl2op/domain_knowledge.py), with and without cached      *)
(* values for their cache keys.                                            *)
(***************************************************************************)
\* [min_lon, min_lat, max_lon, max_lat] of every region, in table order
OCEAN_REGIONS ==
    << ArabianSea,                 \* Arabian Sea
       <<80, 5, 95, 23>>,          \* Bay of Bengal
       <<-80, 20, 0, 65>>,         \* North Atlantic
       <<-70, -60, 20, 0>>,        \* South Atlantic
       <<100, 0, -100, 65>>,       \* North Pacific
       <<140, -60, -70, 0>>,       \* South Pacific
       <<20, -60, 120, 30>>,       \* Indian Ocean
       <<-180, -90, 180, -60>>,    \* Southern Ocean
       <<-180, 66, 180, 90>>,      \* Arctic Ocean
       <<-6, 30, 36, 46>>,         \* Mediterranean Sea
       <<-98, 18, -80, 31>>,       \* Gulf of Mexico
       <<-88, 9, -60, 22>>,        \* Caribbean Sea
       <<32, 12, 44, 30>>,         \* Red Sea
       <<48, 24, 56, 30>>,         \* Persian Gulf
       <<100, 0, 121, 25>>,        \* South China Sea
       <<117, 23, 131, 33>>,       \* East China Sea
       <<127, 33, 142, 52>>,       \* Sea of Japan
       <<142, -25, 175, -10>>,     \* Coral Sea
       <<145, -45, 175, -28>>,     \* Tasman Sea
       <<-60, -80, -20, -60>>,     \* Weddell Sea
       <<160, -85, -150, -70>> >>  \* Ross Sea

CostTemplates ==
    {[type |-> SPATIAL_FILTER, params |-> [bbox |-> OCEAN_REGIONS[r]]] :
        r \in 1..Len(OCEAN_REGIONS)}
    \cup {[type |-> COMPUTE_MLD, params |-> [method |-> "temperature_threshold"]],
          [type |-> VISUALIZE, params |-> [type |-> "time_series"]]}

\* the generator chains each operator to the one before it
ChainEdges(n) == [k \in 1..(n - 1) |-> [from_id |-> k, to_id |-> k + 1]]

CacheKeys(d) == {_generate_cache_key(d.operators[k]) : k \in 1..Len(d.operators)}

InitCost ==
    /\ \E n \in 1..MaxCostOps :
           \E ts \in [1..n -> CostTemplates] : dag = MakeDAG(ts, ChainEdges(n))
    /\ deadline_ms \in Deadlines
    /\ cache \in {{}, CacheKeys(dag)}
    /\ plan = NoPlan
    /\ plan_status = "none"
    /\ OrchIdle
    /\ BridgeIdle
    /\ NoRequest

NextCost == Plan

SpecCost == InitCost /\ [][NextCost]_vars

(***************************************************************************)
(* Planning followed by execution: plans of DAGs of at most MaxExecOps      *)
(* operators are handed to MCPOrchestrator.execute.                        *)
(***************************************************************************)
ExecTemplates ==
    { [type |-> SPATIAL_FILTER, params |-> [bbox |-> ArabianSea]],
      [type |-> VISUALIZE, params |-> [type |-> "time_series"]] }

ForwardEdges(n) == {e \in EdgeSet(n) : 0 < e.from_id /\ e.from_id < e.to_id}

ExecEdgeSeqs(n) ==
    {es \in UNION {[1..m -> ForwardEdges(n)] : m \in 0..MaxExecEdges} :
        \A a, b \in 1..Len(es) : a # b => es[a] # es[b]}

ExecDeadlines == {None, 100}

InitOrch ==
    /\ \E n \in 1..MaxExecOps :
           \E ts \in [1..n -> ExecTemplates], es \in ExecEdgeSeqs(n) : dag = MakeDAG(ts, es)
    /\ deadline_ms \in ExecDeadlines
    /\ cache = {}
    /\ plan = NoPlan
    /\ plan_status = "none"
    /\ OrchIdle
    /\ BridgeIdle
    /\ NoRequest

NextOrch ==
    \/ Plan
    \/ ExecuteStart
    \/ \E i \in DOMAIN task : Dispatch(i)
    \/ \E i \in DOMAIN task, outcome \in Outcomes, result \in SuccessResponses :
           Finish(i, outcome, result)
    \/ GatherReturn

SpecOrch == InitOrch /\ [][NextOrch]_vars

(***************************************************************************)
(* MCPOrchestrator.execute on an ExecutionPlan built by its caller: the    *)
(* steps run one per group in plan order, or all in one group, and a       *)
(* step's mcp_server may be a name the registry does not hold.             *)
(***************************************************************************)
MaxHandSteps == 2

HandServers == {"structured", "visualization", "analytics"}

HandOperator(k) ==
    MakeOperator(k, [type |-> SPATIAL_FILTER, params |-> [bbox |-> ArabianSea]])

HandStep(k, server, chained) ==
    [operator |-> HandOperator(k),
     mcp_server |-> server,
     cache_key |-> _generate_cache_key(HandOperator(k)),
     timeout |-> 1000,
     depends_on |-> IF chained /\ k > 1 THEN <<k - 1>> ELSE <<>>]

HandPlans ==
    UNION {
        {[steps |-> [k \in 1..n |-> HandStep(k, srv[k], chained)],
          estimated_cost |-> 0,
          parallel_groups |-> IF chained THEN [k \in 1..n |-> <<k - 1>>]
                              ELSE <<[k \in 1..n |-> k - 1]>>,
          deadline_ms |-> None,
          execution_order |-> [k \in 1..n |-> k]] :
            srv \in [1..n -> HandServers], chained \in BOOLEAN} :
        n \in 1..MaxHandSteps}

InitExec ==
    /\ dag = [operators |-> <<>>, edges |-> <<>>]
    /\ deadline_ms = None
    /\ cache = {}
    /\ plan \in HandPlans
    /\ plan_status = "ok"
    /\ OrchIdle
    /\ BridgeIdle
    /\ NoRequest

NextExec ==
    \/ ExecuteStart
    \/ \E i \in DOMAIN task : Dispatch(i)
    \/ \E i \in DOMAIN task, outcome \in Outcomes, result \in SuccessResponses :
           Finish(i, outcome, result)
    \/ GatherReturn

SpecExec == InitExec /\ [][NextExec]_vars

(***************************************************************************)
(* Properties of the plans returned by QueryPlanner.plan.                  *)
(***************************************************************************)
StepIds(p) == [k \in 1..Len(p.steps) |-> p.steps[k].operator.id]

\* the groups that hold the 0-based step index i
GroupsOf(p, i) == {g \in 1..Len(p.parallel_groups) : InSeq(i, p.parallel_groups[g])}

\* the places <<group, position>> of parallel_groups
GroupEntries(p) ==
    UNION {{<<g, k>> : k \in 1..Len(p.parallel_groups[g])} : g \in 1..Len(p.parallel_groups)}

\* C1: in every plan returned by plan(), each step lies in a parallel group
\* whose index is strictly greater than the group index of every step listed
\* in its depends_on.
C1_GroupOrder ==
    plan_status = "ok" =>
        \A k \in 1..Len(plan.steps) :
            /\ GroupsOf(plan, k - 1) # {}
            /\ \A j \in 1..Len(plan.steps) :
                   InSeq(plan.steps[j].operator.id, plan.steps[k].depends_on) =>
                       \A gk \in GroupsOf(plan, k - 1), gj \in GroupsOf(plan, j - 1) : gj < gk

\* C2: in every plan returned by plan(), parallel_groups is an ordered
\* partition of the step indices: every index 0..len(steps)-1 occurs in
\* exactly one group, at one place, and no group holds any other index.
C2_Partition ==
    plan_status = "ok" =>
        /\ \A i \in 0..(Len(plan.steps) - 1) :
               Cardinality({e \in GroupEntries(plan) : plan.parallel_groups[e[1]][e[2]] = i}) = 1
        /\ \A e \in GroupEntries(plan) :
               plan.parallel_groups[e[1]][e[2]] \in 0..(Len(plan.steps) - 1)

\* C3: for an acyclic DAG whose edges reference existing operators, the
\* topological order used by plan() holds every operator id exactly once and
\* places u before v for every edge (u,v); plan.steps follows that order, so
\* every step comes after all the steps it depends on.
C3_TopologicalOrder ==
    plan_status = "ok" =>
        LET order == plan.execution_order
        IN /\ Len(order) = Len(dag.operators)
           /\ Range(order) = OpIds(dag)
           /\ \A k \in 1..Len(dag.edges) :
                  IndexOf(dag.edges[k].from_id, order) < IndexOf(dag.edges[k].to_id, order)
           /\ StepIds(plan) = SelectSeq(order, LAMBDA v : v \in Range(StepIds(plan)))
           /\ \A k, j \in 1..Len(plan.steps) :
                  InSeq(plan.steps[j].operator.id, plan.steps[k].depends_on) => j < k

\* a plan over three operators whose topological order is not the order of
\* dag.operators
C3_Witness ==
    /\ plan_status = "ok"
    /\ Len(plan.steps) = 3
    /\ Len(dag.edges) = 2
    /\ \E k \in 1..Len(dag.edges) : dag.edges[k].from_id > dag.edges[k].to_id
    /\ plan.execution_order # <<1, 2, 3>>

\* the pairs <<u, v>> joined by a path of at most k edges of the DAG
RECURSIVE Paths(_, _)
Paths(d, k) ==
    LET direct == {<<d.edges[j].from_id, d.edges[j].to_id>> : j \in 1..Len(d.edges)}
    IN IF k <= 1 THEN direct
       ELSE LET shorter == Paths(d, k - 1)
            IN shorter \cup {<<p[1][1], p[2][2]>> :
                                p \in {q \in shorter \X direct : q[1][2] = q[2][1]}}

Cyclic(d) == \E v \in OpIds(d) : <<v, v>> \in Paths(d, Len(d.operators))

Dangling(d) ==
    \E k \in 1..Len(d.edges) :
        d.edges[k].from_id \notin OpIds(d) \/ d.edges[k].to_id \notin OpIds(d)

\* C13: plan() on a DAG that has a cycle, or an edge whose from_id or to_id
\* is no operator of the DAG, fails with DAGError and returns no plan.
C13_DAGError ==
    (plan_status # "none" /\ (Cyclic(dag) \/ Dangling(dag))) =>
        /\ plan_status = "DAGError"
        /\ plan = NoPlan

\* plan() was refused for a cycle among existing operators
C13_Witness ==
    /\ plan_status = "DAGError"
    /\ Cyclic(dag)
    /\ ~Dangling(dag)

\* C14: deadline optimization of steps whose summed cost is at most the
\* deadline changes nothing: the step list, every operator's params and
\* every operator's estimated_cost stay as they are, however often it is
\* applied.
C14_CompliantUnchanged ==
    [][(plan_status = "ok" /\ plan_status' = "ok"
            /\ TotalCost(plan.steps) <= deadline_ms' * CostScale)
        => (plan'.steps = plan.steps /\ dag'.operators = dag.operators)]_vars

\* a plan built without a deadline, then optimized for a deadline it meets
C14_Witness ==
    /\ plan_status = "ok"
    /\ plan.deadline_ms = None
    /\ deadline_ms # None
    /\ \E k \in 1..Len(plan.steps) : plan.steps[k].operator.type = COMPUTE_MLD
    /\ TotalCost(plan.steps) <= deadline_ms * CostScale
    /\ plan.steps = BuildSteps(dag, plan.execution_order)

\* the steps of before that are still present in after
KeptSteps(before, after) ==
    SelectSeq(before, LAMBDA s : \E k \in 1..Len(after) : after[k].operator.id = s.operator.id)

\* the cost the operator of a step carried in before
CostBefore(before, step) ==
    before[CHOOSE k \in 1..Len(before) : before[k].operator.id = step.operator.id]
        .operator.estimated_cost

\* phase 2 acted: a gradient/MLD/anomaly operator changed its cost
Phase2Applied(before, after) ==
    \E k \in 1..Len(after) :
        /\ after[k].operator.type \in {COMPUTE_GRADIENT, COMPUTE_MLD, COMPUTE_ANOMALY}
        /\ after[k].operator.estimated_cost # CostBefore(before, after[k])

\* phase 3 acted: a filter operator changed its cost
Phase3Applied(before, after) ==
    \E k \in 1..Len(after) :
        /\ after[k].operator.type \in {SPATIAL_FILTER, TEMPORAL_FILTER}
        /\ after[k].operator.estimated_cost # CostBefore(before, after[k])

\* the total after phase 2: the filters still at their cost of before
CostAfterPhase2(before, after) ==
    SumSeq([k \in 1..Len(after) |->
               IF after[k].operator.type \in {SPATIAL_FILTER, TEMPORAL_FILTER}
               THEN CostBefore(before, after[k])
               ELSE after[k].operator.estimated_cost])

\* C19: each phase of an application of _optimize_for_deadline acts only if
\* the total cost, recomputed after the phase before it, exceeds the
\* deadline: VISUALIZE steps are dropped only above 1.5 x deadline, fast_mode
\* and the halved cost are applied only if the total after the drop exceeds
\* the deadline, sampling only if the total after the halving does.
C19_PhasesRechecked ==
    [][(plan_status = "ok" /\ plan_status' = "ok") =>
        LET before == plan.steps
            after == plan'.steps
            limit == deadline_ms' * CostScale
        IN /\ Len(after) < Len(before) => 2 * TotalCost(before) > 3 * limit
           /\ Phase2Applied(before, after) =>
                  TotalCost(KeptSteps(before, after)) > limit
           /\ Phase3Applied(before, after) =>
                  CostAfterPhase2(before, after) > limit]_vars

\* C15: an operator whose cache key has a cached value is estimated at no
\* more than 10% of the static base cost of its kind, whatever its
\* parameters (seen on plans without a deadline, whose operators carry the
\* estimate as _estimate_costs assigned it).
C15_CachedCost ==
    (plan_status = "ok" /\ deadline_ms = None) =>
        \A k \in 1..Len(dag.operators) :
            LET op == dag.operators[k]
            IN _generate_cache_key(op) \in cache =>
                   10 * op.estimated_cost <= base_costs(op.type) * CostScale

\* C16: in a plan over a non-empty DAG every step's estimated cost and the
\* plan's estimated_cost are strictly positive, for every bounding box of the
\* region table.
C16_PositiveCosts ==
    (plan_status = "ok" /\ Len(dag.operators) > 0) =>
        /\ \A k \in 1..Len(plan.steps) : plan.steps[k].operator.estimated_cost > 0
        /\ plan.estimated_cost > 0

\* C20: in a returned plan, degraded for a deadline or not, every step's
\* timeout is max(1000 ms, 3 x the estimated_cost its operator carries in
\* that plan), and so never below 1000 ms.
C20_TimeoutFromCost ==
    plan_status = "ok" =>
        \A k \in 1..Len(plan.steps) :
            /\ plan.steps[k].timeout =
                   Max(1000, IntOf(plan.steps[k].operator.estimated_cost * 3))
            /\ plan.steps[k].timeout >= 1000

\* C21: in a returned plan, degraded for a deadline or not, every step's
\* cache_key is the key of its operator's kind and of the params the
\* operator carries in that plan, so steps whose effective params differ
\* have different keys.
C21_CacheKeyOfParams ==
    plan_status = "ok" =>
        \A k \in 1..Len(plan.steps) :
            plan.steps[k].cache_key = _generate_cache_key(plan.steps[k].operator)

(***************************************************************************)
(* The bridge alone: validate on every kind of query, with and without a   *)
(* user, under every setting of the bridge.                                *)
(***************************************************************************)
PlannerIdle ==
    /\ dag = [operators |-> <<>>, edges |-> <<>>]
    /\ deadline_ms = None
    /\ cache = {}
    /\ plan = NoPlan
    /\ plan_status = "none"

Users == {NoUser, "alice"}

InitBridge ==
    /\ PlannerIdle
    /\ OrchIdle
    /\ query \in Queries
    /\ user_id \in Users
    /\ bridge \in [neural_enabled : BOOLEAN, neural_model : BOOLEAN, llm_enabled : BOOLEAN]
    /\ redis_count \in {NoKey, 1, BridgeRateLimit}
    /\ val_status = "idle"
    /\ stage_result = [n \in 1..3 |-> "not_run"]
    /\ issues = <<>>
    /\ validation = NoValidation
    /\ NoRequest

NextBridge ==
    \/ ValidateStart
    \/ RateLimit
    \/ Stage1
    \/ Stage2
    \/ Stage3

SpecBridge == InitBridge /\ [][NextBridge]_vars

(***************************************************************************)
(* nl2op: EntityExtractor, OperatorGenerator and NL2Operator.parse.  A     *)
(* query text is described by what the extractors and the intent patterns  *)
(* find in it: a region name of OCEAN_REGIONS or a place spaCy labels GPE  *)
(* or LOC, "last 3 months", a season name, the first four-digit number,    *)
(* whether spaCy labels that number a DATE, parameter names, the bare      *)
(* seven-digit number "1234567" (written after any year), the quality term *)
(* "questionable" and the intent pattern "mld" or "gradient".  Depth       *)
(* phrases are absent from these texts.  Confidences are in hundredths.    *)
(***************************************************************************)
MINYEAR == 1       \* datetime.MINYEAR
MAXYEAR == 9999    \* datetime.MAXYEAR
NowYear == 2026    \* datetime.now().year

\* the four-digit numbers "0000", "0001", "2023" and "9999"
Years == {0, 1, 2023, 9999}

\* (start_month, end_month) of the seasons table
seasons(season) ==
    CASE season = "winter" -> <<12, 2>>
      [] season = "summer" -> <<6, 8>>

Texts ==
    {t \in [spatial : {"none", "region", "regions", "location"},
            relative : BOOLEAN,
            season : {"none", "winter", "summer"},
            year : {NoYear} \cup Years,
            date_ent : BOOLEAN,
            parameters : 0..1,
            floats : 0..1,
            quality : BOOLEAN,
            pattern : {"none", "mld", "gradient"}] :
        t.date_ent => t.year # NoYear}

\* datetime(year, month, day) raises ValueError outside MINYEAR..MAXYEAR
ValidDate(year) == MINYEAR <= year /\ year <= MAXYEAR

Extracted(list) == [ok |-> TRUE, list |-> list]

ExtractRaised == [ok |-> FALSE, list |-> <<>>]

_extract_spatial(t) ==
    Extracted(
        IF t.spatial = "region"
        THEN <<[type |-> "region", name |-> "Arabian Sea", bbox |-> ArabianSea,
                confidence |-> 95]>>
        ELSE IF t.spatial = "regions"
        THEN <<[type |-> "region", name |-> "Arabian Sea", bbox |-> OCEAN_REGIONS[1],
                confidence |-> 95],
               [type |-> "region", name |-> "Bay of Bengal", bbox |-> OCEAN_REGIONS[2],
                confidence |-> 95]>>
        ELSE IF t.spatial = "location"
        THEN <<[type |-> "location", name |-> "Goa", bbox |-> <<>>, confidence |-> 60]>>
        ELSE <<>>)

\* the season block builds its datetimes outside any try; the DATE block
\* swallows what it raises
_extract_temporal(t) ==
    LET relative ==
            IF t.relative
            THEN <<[type |-> "relative", start |-> NowYear, end |-> NowYear,
                    confidence |-> 90]>>
            ELSE <<>>
        \* re.search(r'(\d{4})', query): the first four digits of the text
        year == IF t.year # NoYear THEN t.year
                ELSE IF t.floats > 0 THEN 1234 ELSE NowYear
        start_year == IF seasons(t.season)[1] > seasons(t.season)[2] THEN year - 1 ELSE year
        season ==
            IF t.season = "none" THEN <<>>
            ELSE <<[type |-> "season", start |-> start_year, end |-> year,
                    confidence |-> 85]>>
        dates ==
            IF t.date_ent /\ ValidDate(t.year)
            THEN <<[type |-> "year", start |-> t.year, end |-> t.year, confidence |-> 85]>>
            ELSE <<>>
    IN IF t.season # "none" /\ ~(ValidDate(start_year) /\ ValidDate(year))
       THEN ExtractRaised
       ELSE Extracted(relative \o season \o dates)

_extract_parameters(t) ==
    Extracted([k \in 1..t.parameters |->
                  [name |-> "temperature", column |-> "temperature", confidence |-> 95]])

\* "1234567" matches the standalone seven-digit pattern only
_extract_floats(t) ==
    Extracted([k \in 1..t.floats |-> [float_id |-> "1234567", confidence |-> 90]])

\* QC_MAPPINGS["questionable"]; data_mode None is ""
_extract_quality(t) ==
    Extracted(IF t.quality
              THEN <<[qc_flags |-> <<3>>, data_mode |-> "", confidence |-> 90]>>
              ELSE <<>>)

_extract_depth(t) == Extracted(<<>>)

\* the six operations in the order extract calls them
Extractions(t) ==
    <<[name |-> "spatial", result |-> _extract_spatial(t)],
      [name |-> "temporal", result |-> _extract_temporal(t)],
      [name |-> "parameters", result |-> _extract_parameters(t)],
      [name |-> "floats", result |-> _extract_floats(t)],
      [name |-> "quality", result |-> _extract_quality(t)],
      [name |-> "depth", result |-> _extract_depth(t)]>>

\* EntityExtractor.extract: the first operation that raises ends it
extract(t) ==
    LET ex == Extractions(t)
        raised == {k \in 1..Len(ex) : ~ex[k].result.ok}
    IN IF raised # {}
       THEN [ok |-> FALSE,
             raised_in |-> ex[CHOOSE k \in raised : \A j \in raised : k <= j].name]
       ELSE [ok |-> TRUE, raised_in |-> "",
             spatial |-> ex[1].result.list, temporal |-> ex[2].result.list,
             parameters |-> ex[3].result.list, floats |-> ex[4].result.list,
             quality |-> ex[5].result.list, depth |-> ex[6].result.list]

_detect_intent(t, entities) ==
    IF t.pattern = "gradient" THEN "gradient_analysis"
    ELSE IF t.pattern = "mld" THEN "mixed_layer_analysis"
    ELSE IF entities.temporal # <<>> /\ entities.spatial = <<>> THEN "time_series_analysis"
    ELSE IF entities.spatial # <<>> /\ entities.temporal = <<>> THEN "spatial_analysis"
    ELSE IF Len(entities.parameters) > 1 THEN "comparison"
    ELSE IF entities.floats # <<>> THEN "float_tracking"
    ELSE IF entities.depth # <<>> THEN "profile_analysis"
    ELSE "general_query"

\* viz_types[0] of INTENT_VISUALIZATIONS.get(intent, ["time_series"])
INTENT_VISUALIZATIONS(intent) ==
    CASE intent = "time_series_analysis" -> "time_series"
      [] intent = "spatial_analysis" -> "heatmap"
      [] intent = "comparison" -> "vertical_profile"
      [] intent = "float_tracking" -> "trajectory_map"
      [] intent = "profile_analysis" -> "vertical_profile"
      [] intent = "gradient_analysis" -> "heatmap"
      [] intent = "mixed_layer_analysis" -> "hovmoller"
      [] OTHER -> "time_series"

\* operators.append(op); `if last_op_id: edges.append(Edge(last_op_id,
\* op.id))`; last_op_id = op.id.  An operator's id is its position in the
\* list (the uuid suffixes are taken distinct); last_op_id None is 0.
AppendOperator_NoEdge(g, t) ==
    [operators |-> Append(g.operators, t), edges |-> g.edges,
     last_op_id |-> Len(g.operators) + 1]

AppendOperator(g, t) ==
    LET op_id == Len(g.operators) + 1
    IN [operators |-> Append(g.operators, t),
        edges |-> IF g.last_op_id # 0
                  THEN Append(g.edges, [from_id |-> g.last_op_id, to_id |-> op_id])
                  ELSE g.edges,
        last_op_id |-> op_id]

RECURSIVE AppendAll(_, _)
AppendAll(g, ts) ==
    IF ts = <<>> THEN g ELSE AppendAll(AppendOperator(g, Head(ts)), Tail(ts))

\* the filter operators of Step 1, in the order the code appends them
FilterTemplates(entities) ==
    LET boxed == SelectSeq(entities.spatial, LAMBDA e : e.bbox # <<>>)
        spatial ==
            [k \in 1..Len(boxed) |->
                [type |-> SPATIAL_FILTER,
                 params |-> [bbox |-> boxed[k].bbox, region_name |-> boxed[k].name]]]
        temporal ==
            [k \in 1..Len(entities.temporal) |->
                [type |-> TEMPORAL_FILTER,
                 params |-> [start |-> entities.temporal[k].start,
                             end |-> entities.temporal[k].end,
                             type |-> entities.temporal[k].type]]]
        parameter ==
            IF entities.parameters # <<>>
            THEN <<[type |-> PARAMETER_FILTER,
                    params |-> [parameters |->
                                    [k \in 1..Len(entities.parameters) |->
                                        entities.parameters[k].column],
                                include_qc |-> TRUE]]>>
            ELSE <<>>
        float_ids == [k \in 1..Len(entities.floats) |-> entities.floats[k].float_id]
        float ==
            IF float_ids # <<>>
            THEN <<[type |-> FLOAT_FILTER, params |-> [float_ids |-> float_ids]]>>
            ELSE <<>>
        qc_flags == UNION {Range(entities.quality[k].qc_flags) :
                              k \in 1..Len(entities.quality)}
        data_modes == {entities.quality[k].data_mode : k \in 1..Len(entities.quality)}
                          \ {""}
        quality ==
            IF qc_flags # {} \/ data_modes # {}
            THEN <<[type |-> QC_FILTER, params |-> [qc_flags |-> qc_flags]]>>
            ELSE <<>>
    IN spatial \o temporal \o parameter \o float \o quality

\* the computation operator of Step 2, by intent
ComputeTemplates(intent) ==
    IF intent = "gradient_analysis"
    THEN <<[type |-> COMPUTE_GRADIENT,
            params |-> [parameter |-> "temperature", method |-> "finite_difference"]]>>
    ELSE IF intent = "mixed_layer_analysis"
    THEN <<[type |-> COMPUTE_MLD,
            params |-> [method |-> "temperature_threshold", threshold |-> Half]]>>
    ELSE IF intent = "comparison"
    THEN <<[type |-> COMPUTE_STATS, params |-> [metrics |-> "all"]]>>
    ELSE <<>>

\* OperatorGenerator.generate: (operators, edges)
generate(entities, intent) ==
    LET visualize ==
            <<[type |-> VISUALIZE, params |-> [type |-> INTENT_VISUALIZATIONS(intent)]]>>
        g == AppendAll([operators |-> <<>>, edges |-> <<>>, last_op_id |-> 0],
                       FilterTemplates(entities) \o ComputeTemplates(intent) \o visualize)
    IN [operators |-> g.operators, edges |-> g.edges]

AllEntities(entities) ==
    entities.spatial \o entities.temporal \o entities.parameters \o entities.floats
        \o entities.quality \o entities.depth

\* the mean of the entity, operator and intent scores as the fraction
\* <<numerator, denominator>>: with S the sum of the n entity confidences, k
\* operators and intent score I, (S/(100n) + min(1, k/3) + I/100) / 3
_calculate_confidence(entities, operators, intent) ==
    LET all == AllEntities(entities)
        n == IF all # <<>> THEN Len(all) ELSE 1
        S == IF all # <<>> THEN SumSeq([k \in 1..Len(all) |-> all[k].confidence]) ELSE 30
        k == Len(operators)
        op3 == IF k = 0 THEN 60 * n ELSE 100 * n * (IF k < 3 THEN k ELSE 3)
        I == IF intent # "general_query" THEN 90 ELSE 50
    IN <<3 * S + op3 + 3 * n * I, 900 * n>>

\* confidence < 0.7
LowConfidence(c) == 10 * c[1] < 7 * c[2]

\* the intents of the alternatives: generate always returns the VISUALIZE
\* operator, so an alternative is appended whenever its branch is entered
_generate_alternatives(entities) ==
    (IF entities.spatial # <<>> THEN <<"global_analysis">> ELSE <<>>)
        \o (IF entities.parameters # <<>> THEN <<"multi_parameter">> ELSE <<>>)

\* NL2Operator.parse (self.memory is None); alternatives None is <<>>
parse(t) ==
    LET entities == extract(t)
        intent == _detect_intent(t, entities)
        generated == generate(entities, intent)
        operators == generated.operators
        confidence == _calculate_confidence(entities, operators, intent)
    IN IF ~entities.ok
       THEN [NoParse EXCEPT !.status = "raised", !.raised_in = entities.raised_in]
       ELSE [status |-> "ok", raised_in |-> "", operators |-> operators,
             edges |-> generated.edges, confidence |-> confidence, intent |-> intent,
             alternatives |-> IF LowConfidence(confidence)
                              THEN _generate_alternatives(entities) ELSE <<>>]

\* dag = await nl2op.parse(query) on its own
ParseText ==
    /\ req_status = "none"
    /\ parsed.status = "none"
    /\ parsed' = parse(text)
    /\ UNCHANGED <<req_status, reply, text>>
    /\ UNCHANGED planner_vars
    /\ UNCHANGED orch_vars
    /\ UNCHANGED bridge_vars
    /\ UNCHANGED service_vars

InitParse ==
    /\ PlannerIdle
    /\ OrchIdle
    /\ BridgeIdle
    /\ req_status = "none"
    /\ reply = NoReply
    /\ text \in Texts
    /\ parsed = NoParse
    /\ ServiceIdle

NextParse == ParseText

SpecParse == InitParse /\ [][NextParse]_vars

(***************************************************************************)
(* routers/query.py: process_query, from the request to the QueryResult.   *)
(* Each action runs from one await of the handler to the next; the planner, *)
(* the bridge and the orchestrator run in between, by their own actions.   *)
(***************************************************************************)
\* "; ".join(issues)
Join(list) ==
    IF list = <<>> THEN <<>>
    ELSE [k \in 1..(2 * Len(list) - 1) |-> IF k % 2 = 1 THEN list[(k + 1) \div 2] ELSE "; "]

ErrorReply(code, message) ==
    [success |-> FALSE, code |-> code, message |-> message, data |-> NoFinalData]

NotPassed_Blocked(v) == ~v.passed /\ v.stage_reached = 0

\* `if not validation.passed`
NotPassed(v) == ~v.passed

\* `if dag.confidence < 0.7 and dag.alternatives`
NeedsClarification(p) == LowConfidence(p.confidence) /\ p.alternatives # <<>>

\* dag = await nl2op.parse(...), raising or returning, and the clarification
\* return
Parse ==
    /\ req_status = "received"
    /\ parsed' = parse(text)
    /\ IF parsed'.status = "raised"
       THEN /\ req_status' = "responded"
            /\ reply' = ErrorReply("PROCESSING_ERROR", <<"ValueError">>)
            /\ dag' = dag
       ELSE IF NeedsClarification(parsed')
       THEN /\ req_status' = "responded"
            /\ reply' = [success |-> TRUE, code |-> "CLARIFICATION_NEEDED",
                         message |-> <<"Query is ambiguous. Please select an interpretation.">>,
                         data |-> NoFinalData]
            /\ dag' = dag
       ELSE /\ req_status' = "planning"
            /\ reply' = reply
            /\ dag' = MakeDAG(parsed'.operators, parsed'.edges)
    /\ text' = text
    /\ UNCHANGED <<deadline_ms, cache, plan, plan_status>>
    /\ UNCHANGED orch_vars
    /\ UNCHANGED bridge_vars
    /\ UNCHANGED service_vars

\* planner.plan returned or raised
Planned ==
    /\ req_status = "planning"
    /\ plan_status # "none"
    /\ IF plan_status = "ok"
       THEN /\ req_status' = "validating"
            /\ reply' = reply
       ELSE /\ req_status' = "responded"
            /\ reply' = ErrorReply("PROCESSING_ERROR", <<"DAGError">>)
    /\ UNCHANGED <<text, parsed>>
    /\ UNCHANGED planner_vars
    /\ UNCHANGED orch_vars
    /\ UNCHANGED bridge_vars
    /\ UNCHANGED service_vars

\* bridge.validate returned or raised
Validated ==
    /\ req_status = "validating"
    /\ val_status \in {"done", "raised"}
    /\ IF val_status = "raised"
       THEN /\ req_status' = "responded"
            /\ reply' = ErrorReply("PROCESSING_ERROR", <<"TypeError">>)
       ELSE IF NotPassed(validation)
       THEN /\ req_status' = "responded"
            /\ reply' = ErrorReply("SECURITY_VIOLATION",
                                   IF validation.issues # <<>> THEN Join(validation.issues)
                                   ELSE <<"Security check failed">>)
       ELSE /\ req_status' = "executing"
            /\ reply' = reply
    /\ UNCHANGED <<text, parsed>>
    /\ UNCHANGED planner_vars
    /\ UNCHANGED orch_vars
    /\ UNCHANGED bridge_vars
    /\ UNCHANGED service_vars

\* orchestrator.execute returned or raised; refinement leaves the result as
\* it is, and the visualization and LLM services answer or raise
Executed ==
    /\ req_status = "executing"
    /\ exec_status \in {"done", "raised"}
    /\ req_status' = "responded"
    /\ \E answered \in BOOLEAN :
           IF exec_status = "raised"
           THEN reply' = ErrorReply("PROCESSING_ERROR", <<"IndexError">>)
           ELSE IF ~answered
           THEN reply' = ErrorReply("PROCESSING_ERROR", <<"Exception">>)
           ELSE reply' = [success |-> TRUE, code |-> "", message |-> <<>>,
                          data |-> exec_result.data]
    /\ UNCHANGED <<text, parsed>>
    /\ UNCHANGED planner_vars
    /\ UNCHANGED orch_vars
    /\ UNCHANGED bridge_vars
    /\ UNCHANGED service_vars

\* request texts: nothing found; an unknown place; a region; a region and
\* "mld"; a winter of the year "0000"
RequestTexts ==
    {PlainText,
     [PlainText EXCEPT !.spatial = "location"],
     [PlainText EXCEPT !.spatial = "region"],
     [PlainText EXCEPT !.spatial = "region", !.pattern = "mld"],
     [PlainText EXCEPT !.season = "winter", !.year = 0]}

\* QueryRequest bounds the query to 2000 characters
RequestQueries == {q \in Queries : ~q.too_long}

InitQuery ==
    /\ dag = [operators |-> <<>>, edges |-> <<>>]
    /\ deadline_ms \in ExecDeadlines
    /\ cache = {}
    /\ plan = NoPlan
    /\ plan_status = "none"
    /\ OrchIdle
    /\ query \in RequestQueries
    /\ user_id \in Users
    /\ bridge = DefaultBridge
    /\ redis_count \in {NoKey, BridgeRateLimit}
    /\ val_status = "idle"
    /\ stage_result = [n \in 1..3 |-> "not_run"]
    /\ issues = <<>>
    /\ validation = NoValidation
    /\ req_status = "received"
    /\ reply = NoReply
    /\ text \in RequestTexts
    /\ parsed = NoParse
    /\ ServiceIdle

\* Stage 3 has no step here: with at most 2000 characters the heuristic score
\* of Stage 2 stays at or above 0.5, so validate never escalates a request
NextQuery ==
    \/ Parse
    \/ Plan
    \/ Planned
    \/ ValidateStart
    \/ RateLimit
    \/ Stage1
    \/ Stage2
    \/ Validated
    \/ ExecuteStart
    \/ \E i \in DOMAIN task : Dispatch(i)
    \/ \E i \in DOMAIN task, outcome \in Outcomes, result \in SuccessResponses :
           Finish(i, outcome, result)
    \/ GatherReturn
    \/ Executed

SpecQuery == InitQuery /\ [][NextQuery]_vars

(***************************************************************************)
(* Properties of MCPBridge.validate.                                       *)
(***************************************************************************)
MatchesPattern(q) == q.sql_injection \/ q.data_exfil \/ q.prompt_injection

\* the stages that ran, and the last of them
StagesRun == {n \in 1..3 : stage_result[n] # "not_run"}

LastExecuted == CHOOSE n \in StagesRun : \A m \in StagesRun : m <= n

\* C8: a query that matches a pattern of the SQL-injection, data-exfiltration
\* or prompt-injection family never has Stage 2 or Stage 3 run on it, and
\* what validate returns for it is passed = false, BLOCKED, stage_reached = 1
\* with a non-empty issues list.
C8_PatternBlocked ==
    MatchesPattern(query) =>
        /\ stage_result[2] = "not_run"
        /\ stage_result[3] = "not_run"
        /\ val_status = "done" =>
              /\ validation.passed = FALSE
              /\ validation.threat_level = BLOCKED
              /\ validation.stage_reached = 1
              /\ validation.issues # <<>>

C8_Witness ==
    /\ MatchesPattern(query)
    /\ val_status = "done"
    /\ stage_result[1] = BLOCKED

\* C9: validate returns passed = true only if the last stage it executed
\* returned SAFE, whatever the verdicts and the neural_enabled / llm_enabled
\* settings.
C9_PassedOnlyIfSafe ==
    (val_status = "done" /\ validation.passed) =>
        /\ StagesRun # {}
        /\ stage_result[LastExecuted] = SAFE

\* C10: with a user_id, once validate is over: if the limiter does not allow
\* the user, validate returned passed = false, BLOCKED, without running
\* Stage 1; if it allows the user, Stage 1 has run.
C10_RateLimitGate ==
    (user_id # NoUser /\ val_status \in {"done", "raised"}) =>
        IF redis_count # NoKey /\ redis_count >= BridgeRateLimit
        THEN /\ val_status = "done"
             /\ validation.passed = FALSE
             /\ validation.threat_level = BLOCKED
             /\ stage_result[1] = "not_run"
        ELSE stage_result[1] # "not_run"


\* C11: once Stage 1 has run, the stage_reached of the SecurityValidation
\* that validate returns is the number of the last stage that executed; a
\* query Stage 1 finds SAFE, with neural mode off, passes as SAFE at stage 1.
C11_StageReached ==
    (val_status = "done" /\ stage_result[1] # "not_run") =>
        /\ validation.stage_reached \in 1..3
        /\ validation.stage_reached = LastExecuted
        /\ (stage_result[1] = SAFE /\ ~bridge.neural_enabled) =>
              /\ validation.passed
              /\ validation.threat_level = SAFE
              /\ validation.stage_reached = 1

\* C22: the stages of one validate call run one after another: Stage 2 is
\* entered only once Stage 1 has returned SUSPICIOUS, or SAFE with neural
\* mode on; Stage 3 only once Stage 2 has returned SUSPICIOUS with LLM
\* escalation enabled; Stage 1 runs before any other stage.
C22_StagesSequential ==
    /\ val_status = "stage1" => StagesRun = {}
    /\ (val_status = "stage2" \/ stage_result[2] # "not_run") =>
           \/ stage_result[1] = SUSPICIOUS
           \/ stage_result[1] = SAFE /\ bridge.neural_enabled
    /\ val_status = "stage2" => StagesRun = {1}
    /\ (val_status = "stage3" \/ stage_result[3] # "not_run") =>
           /\ stage_result[2] = SUSPICIOUS
           /\ bridge.llm_enabled
    /\ val_status = "stage3" => StagesRun = {1, 2}

\* all three stages have run, Stage 2 entered on Stage 1's SUSPICIOUS verdict
C22_Witness ==
    /\ val_status = "done"
    /\ StagesRun = {1, 2, 3}
    /\ stage_result[1] = SUSPICIOUS
    /\ ~bridge.neural_enabled

(***************************************************************************)
(* Properties of process_query.                                            *)
(***************************************************************************)
\* C7: within a request, orchestrator.execute is entered only after
\* validate returned passed = true; a request whose validation returned
\* passed = false is answered with SECURITY_VIOLATION, the joined issues and
\* no data, and the orchestrator is never entered for it.
C7_ExecuteOnlyIfPassed ==
    req_status # "none" =>
        /\ exec_status # "idle" => (val_status = "done" /\ validation.passed)
        /\ (req_status = "responded" /\ val_status = "done" /\ ~validation.passed) =>
              /\ reply.success = FALSE
              /\ reply.code = "SECURITY_VIOLATION"
              /\ reply.message = Join(validation.issues)
              /\ validation.issues # <<>>
              /\ reply.data = NoFinalData
              /\ exec_status = "idle"

C7_Witness ==
    /\ req_status = "responded"
    /\ val_status = "done"
    /\ ~validation.passed
    /\ reply.code = "SECURITY_VIOLATION"

\* C12: a request whose parse confidence is below 0.7 is answered with the
\* clarification outcome carrying the alternatives, and neither the planner,
\* the bridge nor the orchestrator is invoked for it.
C12_LowConfidenceClarifies ==
    (req_status # "none" /\ parsed.status = "ok" /\ LowConfidence(parsed.confidence)) =>
        /\ req_status = "responded"
        /\ reply.code = "CLARIFICATION_NEEDED"
        /\ parsed.alternatives # <<>>
        /\ plan_status = "none"
        /\ val_status = "idle"
        /\ exec_status = "idle"

(***************************************************************************)
(* Properties of nl2op.                                                    *)
(***************************************************************************)
\* C18: for every text, each of the six extraction operations returns a list
\* and does not raise, and parse, which generates the operators from the
\* entities, returns; whatever four-digit year the text carries.
C18_ExtractionNeverRaises ==
    parsed.status # "none" =>
        /\ \A k \in 1..Len(Extractions(text)) : Extractions(text)[k].result.ok
        /\ parsed.status = "ok"

(***************************************************************************)
(* Properties of MCPOrchestrator.execute.                                  *)
(***************************************************************************)
\* the positions of parallel_groups that hold step index i
StepGroups(i) == GroupsOf(plan, i)

Failed(i) == task[i] \in Outcomes \ {"success"}

\* C4: the groups are executed in list order with a barrier: a step of a
\* group is dispatched only when every step of every earlier group has been
\* dispatched and has finished.
C4_Barrier ==
    \A i \in DOMAIN task :
        Dispatched(task, i) \/ task[i] = "pending" =>
            \A j \in DOMAIN task :
                (\E gi \in StepGroups(i), gj \in StepGroups(j) : gj < gi) => Finished(task, j)

\* a step of the second group is running after both steps of the first group
\* have finished
C4_Witness ==
    /\ exec_status = "running"
    /\ group_pos = 2
    /\ Len(plan.parallel_groups[1]) = 2
    /\ \A k \in 1..2 : Finished(task, plan.parallel_groups[1][k])
    /\ \E k \in 1..Len(plan.parallel_groups[2]) : task[plan.parallel_groups[2][k]] = "running"

\* C5: a step whose executor fails, raises or times out yields exactly one
\* error entry with its operator id, every step of its group and of the later
\* groups is still dispatched, and execute returns an ExecutionResult with
\* success = false instead of raising.
C5_FailureIsolated ==
    exec_status \in {"done", "raised"} =>
        \A i \in DOMAIN task :
            Failed(i) =>
                /\ exec_status = "done"
                /\ exec_result.success = FALSE
                /\ Cardinality({k \in 1..Len(exec_result.errors) :
                       exec_result.errors[k].step = plan.steps[i + 1].operator.id}) = 1
                /\ \A j \in DOMAIN task : Dispatched(task, j)

\* a failed step whose dependent step, in a later group, was dispatched
C5_Witness ==
    /\ exec_status = "done"
    /\ \E i, j \in DOMAIN task :
           /\ Failed(i)
           /\ InSeq(plan.steps[i + 1].operator.id, plan.steps[j + 1].depends_on)
           /\ task[j] = "success"

\* C17: an execution that returns with at least one failed step and at least
\* one succeeded step whose output is not empty carries data (data is not
\* None) and one error entry per failed step, whichever step failed.
C17_PartialData ==
    (/\ exec_status = "done"
     /\ \E i \in DOMAIN task : Failed(i)
     /\ \E i \in DOMAIN task :
            /\ task[i] = "success"
            /\ StepData(step_results, plan.steps[i + 1].operator.id) # NoData) =>
        /\ exec_result.data # NoFinalData
        /\ \A i \in DOMAIN task :
               Failed(i) =>
                   Cardinality({k \in 1..Len(exec_result.errors) :
                       exec_result.errors[k].step = plan.steps[i + 1].operator.id}) = 1

\* C23: the params of the request built for a dispatched step are the
\* operator's params plus input_data holding the output of the last
\* dependency, in depends_on order, that has a recorded result; with no
\* recorded dependency they are the operator's params, without input_data.
C23_InputData ==
    [][\A i \in DOMAIN task :
          (task[i] = "pending" /\ task'[i] = "running") =>
              LET step == plan.steps[i + 1]
                  recorded == SelectSeq(step.depends_on,
                                        LAMBDA d : d \in DOMAIN step_results)
                  params == mcp_request'[i].params
              IN IF recorded = <<>>
                 THEN params = step.operator.params
                 ELSE /\ DOMAIN params = DOMAIN step.operator.params \cup {"input_data"}
                      /\ \A key \in DOMAIN step.operator.params :
                             params[key] = step.operator.params[key]
                      /\ params["input_data"] =
                             step_results[recorded[Len(recorded)]].data]_vars

\* a running step with two recorded dependencies whose outputs differ
C23_Witness ==
    \E i \in DOMAIN task :
        LET step == plan.steps[i + 1]
        IN /\ task[i] = "running"
           /\ Len(step.depends_on) = 2
           /\ \A k \in 1..2 : step.depends_on[k] \in DOMAIN step_results
           /\ step_results[step.depends_on[1]].data # step_results[step.depends_on[2]].data
           /\ mcp_request[i].params["input_data"] = step_results[step.depends_on[2]].data

\* the positions of parallel_groups whose steps include the operator id
GroupsOfId(id) ==
    {g \in 1..Len(plan.parallel_groups) :
        \E k \in 1..Len(plan.parallel_groups[g]) :
            LET i == plan.parallel_groups[g][k]
            IN i < Len(plan.steps) /\ plan.steps[i + 1].operator.id = id}

\* the writes `step_results[step.operator.id] = result` a step of the model
\* makes to the key id: the succeeded tasks of the gathered group with that id
WritesTo(id) ==
    Cardinality({k \in 1..Len(plan.parallel_groups[group_pos]) :
        LET i == plan.parallel_groups[group_pos][k]
        IN task[i] = "success" /\ plan.steps[i + 1].operator.id = id})

\* step_results changes only when the gather of the current group has
\* returned; a key is written once, by a step of that group, and an entry
\* once written is never written again
WrittenOnceAfterBarrier ==
    step_results' # step_results =>
        /\ exec_status = "running"
        /\ GatherDone(task, plan.parallel_groups[group_pos])
        /\ \A id \in DOMAIN step_results :
               id \in DOMAIN step_results' /\ step_results'[id] = step_results[id]
        /\ \A id \in DOMAIN step_results' \ DOMAIN step_results :
               group_pos \in GroupsOfId(id) /\ WritesTo(id) = 1

\* while the tasks of a group run, the map holds entries of steps of earlier
\* groups only
HoldsEarlierGroupsOnly ==
    exec_status = "running" =>
        \A id \in DOMAIN step_results :
            /\ GroupsOfId(id) # {}
            /\ \A g \in GroupsOfId(id) : g < group_pos

\* C24: during one execute call the intermediate-results map gets at most one
\* write per step id, each after the barrier of that step's group, and the
\* running tasks of a group read entries of earlier groups only, under every
\* interleaving of the tasks.
C24_MapAcrossBarrier == []HoldsEarlierGroupsOnly /\ [][WrittenOnceAfterBarrier]_vars

\* two tasks of the second group run at once and read the entry the first
\* group wrote
C24_Witness ==
    /\ exec_status = "running"
    /\ group_pos = 2
    /\ Len(plan.parallel_groups[2]) = 2
    /\ \A k \in 1..2 :
           LET i == plan.parallel_groups[2][k]
           IN /\ task[i] = "running"
              /\ \E d \in DOMAIN step_results : InSeq(d, plan.steps[i + 1].depends_on)
              /\ "input_data" \in DOMAIN mcp_request[i].params

\* C6: success is true exactly when no step error was recorded; confidence is
\* 1 - failed steps / plan steps, lies in [0,1], and is 0 for a plan without
\* steps.
C6_SuccessConfidence ==
    exec_status = "done" =>
        LET failed == Cardinality({i \in DOMAIN task : Failed(i)})
            total == Len(plan.steps)
            c == exec_result.confidence
        IN /\ exec_result.success = (failed = 0)
           /\ failed = Len(exec_result.errors)
           /\ c[2] > 0 /\ 0 <= c[1] /\ c[1] <= c[2]
           /\ IF total = 0 THEN c[1] = 0
              ELSE c[1] * total = (total - failed) * c[2]

\* an execution of three steps of which exactly one failed
C6_Witness ==
    /\ exec_status = "done"
    /\ Len(plan.steps) = 3
    /\ Cardinality({i \in DOMAIN task : Failed(i)}) = 1
    /\ exec_result.confidence = <<2, 3>>

\* C25: the operators and edges generate returns form one linear chain:
\* every edge joins two emitted operators, the first operator has no
\* incoming edge and every later one exactly one, from its predecessor, the
\* graph is acyclic, and the last operator is the only VISUALIZE, present
\* even when no entity was extracted.
C25_LinearChain ==
    parsed.status = "ok" =>
        LET ops == parsed.operators
            es == parsed.edges
            incoming(i) == {k \in 1..Len(es) : es[k].to_id = i}
        IN /\ ops # <<>>
           /\ \A k \in 1..Len(es) :
                  es[k].from_id \in 1..Len(ops) /\ es[k].to_id \in 1..Len(ops)
           /\ incoming(1) = {}
           /\ \A i \in 2..Len(ops) :
                  /\ Cardinality(incoming(i)) = 1
                  /\ \A k \in incoming(i) : es[k].from_id = i - 1
           /\ ~Cyclic(MakeDAG(ops, es))
           /\ {i \in 1..Len(ops) : ops[i].type = VISUALIZE} = {Len(ops)}

\* a chain of four operators or more, and the lone VISUALIZE of a text in
\* which nothing was found
C25_Witness ==
    /\ parsed.status = "ok"
    /\ \/ Len(parsed.operators) >= 4 /\ Len(parsed.edges) = Len(parsed.operators) - 1
       \/ text = PlainText /\ Len(parsed.operators) = 1 /\ parsed.edges = <<>>

\* the filter operator types, and the computation operator types
FilterTypes ==
    {SPATIAL_FILTER, TEMPORAL_FILTER, PARAMETER_FILTER, FLOAT_FILTER, QC_FILTER}

ComputeTypes == {COMPUTE_GRADIENT, COMPUTE_MLD, COMPUTE_ANOMALY, COMPUTE_STATS}

\* one filter type per non-empty entity class, in the order of the classes
FilterPerClass(entities) ==
    (IF entities.spatial # <<>> THEN <<SPATIAL_FILTER>> ELSE <<>>)
        \o (IF entities.temporal # <<>> THEN <<TEMPORAL_FILTER>> ELSE <<>>)
        \o (IF entities.parameters # <<>> THEN <<PARAMETER_FILTER>> ELSE <<>>)
        \o (IF entities.floats # <<>> THEN <<FLOAT_FILTER>> ELSE <<>>)
        \o (IF entities.quality # <<>> THEN <<QC_FILTER>> ELSE <<>>)

\* C26: the chain holds exactly one filter operator for each non-empty
\* entity class and none for an empty one, in the order spatial, temporal,
\* parameter, float, quality, then at most one computation operator, then
\* VISUALIZE, whatever the number of entities in a class.
C26_OneFilterPerClass ==
    parsed.status = "ok" =>
        LET types == [k \in 1..Len(parsed.operators) |-> parsed.operators[k].type]
            filters == SelectSeq(types, LAMBDA ty : ty \in FilterTypes)
            rest == SubSeq(types, Len(filters) + 1, Len(types))
        IN /\ filters = FilterPerClass(extract(text))
           /\ types = filters \o rest
           /\ \/ rest = <<VISUALIZE>>
              \/ Len(rest) = 2 /\ rest[1] \in ComputeTypes /\ rest[2] = VISUALIZE

(***************************************************************************)
(* MCPBridge.validate_dag: the scan of the operators' params.  A params    *)
(* dict is the sequence of its items in insertion order; a value is        *)
(* described by whether it is a str and by the pattern families that match *)
(* its text (for a value that is no str: the text of what it holds).       *)
(***************************************************************************)
MaxDagOps == 2

\* the keys of _compiled_patterns, in order
PatternFamilies == <<"sql_injection", "data_exfil", "prompt_injection">>

DagParamValues ==
    [str : BOOLEAN,
     matches : {{}, {"sql_injection"}, {"prompt_injection"}, {"sql_injection", "data_exfil"}}]

DagTemplates ==
    {[type |-> SPATIAL_FILTER,
      params |-> <<[key |-> "bbox", value |-> [str |-> FALSE, matches |-> {}]],
                   [key |-> "region_name", value |-> v]>>] : v \in DagParamValues}
        \cup {[type |-> VISUALIZE, params |-> <<[key |-> "type", value |-> v]>>] :
                 v \in DagParamValues}

RECURSIVE ConcatAll(_)
ConcatAll(seqs) == IF seqs = <<>> THEN <<>> ELSE Head(seqs) \o ConcatAll(Tail(seqs))

\* the pattern types whose patterns match the value, in the order the loops
\* over _compiled_patterns try them
ValueMatches_AnyType(value) ==
    SelectSeq(PatternFamilies, LAMBDA f : f \in value.matches)

ValueMatches(value) ==
    IF value.str
    THEN SelectSeq(PatternFamilies, LAMBDA f : f \in value.matches)
    ELSE <<>>

\* every match of the DAG in the order of the scan: operators, items, types
DagMatches(d) ==
    ConcatAll([i \in 1..Len(d.operators) |->
                  ConcatAll([k \in 1..Len(d.operators[i].params) |->
                                ValueMatches(d.operators[i].params[k].value)])])

\* sum(1 for t in operator_types if "filter" in t)
filter_count(d) ==
    Cardinality({i \in 1..Len(d.operators) : d.operators[i].type \in FilterTypes})

NoFilters == "Query has no filters - may access too much data"

\* validate_dag; the confidence in hundredths
validate_dag(d) ==
    LET found == IF filter_count(d) = 0 THEN <<NoFilters>> ELSE <<>>
        matched == DagMatches(d)
    IN IF matched # <<>>
       THEN [passed |-> FALSE, threat_level |-> BLOCKED, stage_reached |-> 1,
             confidence |-> 100,
             issues |-> Append(found, <<"Suspicious pattern in operator parameter",
                                        Head(matched)>>)]
       ELSE [passed |-> TRUE,
             threat_level |-> IF found = <<>> THEN SAFE ELSE SUSPICIOUS,
             stage_reached |-> 1, confidence |-> 100 - 10 * Len(found),
             issues |-> found]

ValidateDag ==
    /\ val_status = "idle"
    /\ Returned(validate_dag(dag))
    /\ UNCHANGED <<query, user_id, bridge, redis_count, stage_result, issues>>
    /\ UNCHANGED planner_vars
    /\ UNCHANGED orch_vars
    /\ UNCHANGED request_vars
    /\ UNCHANGED service_vars

InitDag ==
    /\ \E n \in 0..MaxDagOps :
           \E ts \in [1..n -> DagTemplates] : dag = MakeDAG(ts, ChainEdges(n))
    /\ deadline_ms = None
    /\ cache = {}
    /\ plan = NoPlan
    /\ plan_status = "none"
    /\ OrchIdle
    /\ BridgeIdle
    /\ NoRequest

NextDag == ValidateDag

SpecDag == InitDag /\ [][NextDag]_vars

\* some operator holds a str param value that a pattern matches
StringParamMatches(d) ==
    \E i \in 1..Len(d.operators) :
        \E k \in 1..Len(d.operators[i].params) :
            /\ d.operators[i].params[k].value.str
            /\ d.operators[i].params[k].value.matches # {}

\* C27: validate_dag returns passed=false with threat_level BLOCKED exactly
\* when some operator has a str param value that a pattern of the three
\* families matches; otherwise it returns passed=true, and a DAG without
\* filter operators is only flagged with an issue, not blocked.
C27_BlockedIffPatternInParams ==
    val_status = "done" =>
        /\ (~validation.passed /\ validation.threat_level = BLOCKED)
               <=> StringParamMatches(dag)
        /\ ~StringParamMatches(dag) =>
               /\ validation.passed
               /\ validation.threat_level # BLOCKED
               /\ filter_count(dag) = 0 <=> NoFilters \in Range(validation.issues)

\* both cases: a DAG blocked for the text of a str param, and a DAG without
\* filters, holding a matching text in a value that is no str, passed with
\* the issue
C27_Witness ==
    /\ val_status = "done"
    /\ \/ ~validation.passed /\ Len(dag.operators) = MaxDagOps
       \/ /\ validation.passed
          /\ validation.issues = <<NoFilters>>
          /\ \E i \in 1..Len(dag.operators) :
                 dag.operators[i].params[1].value.matches # {}

\* the 0-based indices of the steps whose mcp_server is no key of servers
UnknownServer(p) == {i \in 0..(Len(p.steps) - 1) : p.steps[i + 1].mcp_server \notin servers}

ErrorEntries(errs, step_id) == {k \in 1..Len(errs) : errs[k].step = step_id}

\* C29: a step whose mcp_server is not in the registry gets no executor
\* call and one error entry; every other step of the plan is dispatched as
\* usual, and execute returns an ExecutionResult instead of raising.
C29_UnknownServer ==
    /\ exec_status # "raised"
    /\ \A i \in DOMAIN task :
           i \in UnknownServer(plan) =>
               /\ task[i] \in {"new", "pending", "raise"}
               /\ mcp_request[i] = NoMCPRequest
    /\ exec_status = "done" =>
           /\ exec_result # NoExecResult
           /\ \A i \in DOMAIN task :
                  IF i \in UnknownServer(plan)
                  THEN /\ Cardinality(ErrorEntries(exec_result.errors,
                                                   plan.steps[i + 1].operator.id)) = 1
                       /\ ~exec_result.success
                  ELSE /\ Finished(task, i)
                       /\ mcp_request[i] =
                              [operation |-> plan.steps[i + 1].operator.type,
                               params |-> mcp_request[i].params,
                               timeout |-> plan.steps[i + 1].timeout]

\* execute has returned from a plan whose first step names an unknown server
\* and whose second step, in the same group or in the next, succeeded
C29_Witness ==
    /\ exec_status = "done"
    /\ Len(plan.steps) = 2
    /\ UnknownServer(plan) = {0}
    /\ task[1] = "success"
    /\ Len(exec_result.errors) = 1

(***************************************************************************)
(* RateLimitMiddleware.dispatch and rate_limit_check of core/redis.py on a *)
(* connected client, for the requests of one user.  Each await of          *)
(* rate_limit_check is a step of its own: the event loop may run the other *)
(* requests, and Redis may expire the key, between GET and SETEX or INCR.  *)
(***************************************************************************)
MaxRequests == 3

\* settings.rate_limit_per_minute, scaled down
rate_limit_per_minute == 2

Handlers == 1..MaxRequests

\* the key as earlier requests of the window left it: absent, or one below
\* the limit
InitRate ==
    /\ PlannerIdle
    /\ OrchIdle
    /\ BridgeIdle
    /\ req_status = "none"
    /\ reply = NoReply
    /\ ParseIdle
    /\ BreakerIdle
    /\ redis_key \in {NoRedisKey,
                      [value |-> rate_limit_per_minute - 1, expires |-> TRUE]}
    /\ admitted = IF redis_key.value = NoKey THEN 0 ELSE redis_key.value
    /\ handler = [r \in Handlers |-> [pc |-> "start", current |-> NoKey, allowed |-> FALSE]]

RateUnchanged ==
    /\ UNCHANGED <<circuit_breaker, now, event, attempt>>
    /\ UNCHANGED planner_vars
    /\ UNCHANGED orch_vars
    /\ UNCHANGED bridge_vars
    /\ UNCHANGED request_vars

\* current = await _redis_client.get(key), and `if count >= limit: return
\* False, 0`, after which dispatch answers 429
Get(r) ==
    /\ handler[r].pc = "start"
    /\ handler' = [handler EXCEPT ![r] =
                      IF redis_key.value # NoKey
                            /\ redis_key.value >= rate_limit_per_minute
                      THEN [pc |-> "done", current |-> redis_key.value, allowed |-> FALSE]
                      ELSE [pc |-> "got", current |-> redis_key.value, allowed |-> FALSE]]
    /\ UNCHANGED <<redis_key, admitted>>
    /\ RateUnchanged

\* await _redis_client.setex(key, 60, 1); return True, limit - 1
SetEx(r) ==
    /\ handler[r].pc = "got"
    /\ handler[r].current = NoKey
    /\ redis_key' = [value |-> 1, expires |-> TRUE]
    /\ admitted' = admitted + 1
    /\ handler' = [handler EXCEPT ![r].pc = "done", ![r].allowed = TRUE]
    /\ RateUnchanged

\* INCR of Redis: a missing key counts as 0 and is created without expiry,
\* an existing key keeps the expiry it has
incr(key) ==
    IF key.value = NoKey THEN [value |-> 1, expires |-> FALSE]
    ELSE [key EXCEPT !.value = @ + 1]

\* await _redis_client.incr(key); return True, limit - count - 1
Incr(r) ==
    /\ handler[r].pc = "got"
    /\ handler[r].current # NoKey
    /\ redis_key' = incr(redis_key)
    /\ admitted' = admitted + 1
    /\ handler' = [handler EXCEPT ![r].pc = "done", ![r].allowed = TRUE]
    /\ RateUnchanged

\* the 60 seconds of the key are over: Redis deletes it and a new window
\* begins
Expire ==
    /\ redis_key.value # NoKey
    /\ redis_key.expires
    /\ redis_key' = NoRedisKey
    /\ admitted' = 0
    /\ UNCHANGED handler
    /\ RateUnchanged

NextRate ==
    \/ \E r \in Handlers : Get(r)
    \/ \E r \in Handlers : SetEx(r)
    \/ \E r \in Handlers : Incr(r)
    \/ Expire

SpecRate == InitRate /\ [][NextRate]_vars

\* C28: at most `limit` requests of the user are allowed within one window
\* of the key, under every interleaving of the user's requests, and the key
\* always carries an expiry, so that a refused user is allowed again once
\* the window has elapsed.
C28_LimitPerWindow ==
    /\ admitted <= rate_limit_per_minute
    /\ redis_key.value # NoKey => redis_key.expires

(***************************************************************************)
(* CircuitBreaker of core/llm_service.py, under every sequence of calls of *)
(* record_success, record_failure and can_attempt (the providers call them *)
(* from generate_response and from their health checks).  The clock        *)
(* advances between the calls by TickSeconds at a time.                    *)
(***************************************************************************)
MaxFailures == 7
MaxTicks == 8
TickSeconds == 20

failure_threshold == 5
timeout_seconds == 60
half_open_attempts == 3

record_success(b) ==
    IF b.state = HALF_OPEN
    THEN IF b.half_open_successes + 1 >= half_open_attempts
         THEN [b EXCEPT !.state = CLOSED, !.failures = 0, !.half_open_successes = 0]
         ELSE [b EXCEPT !.half_open_successes = @ + 1]
    ELSE IF b.state = CLOSED
    THEN [b EXCEPT !.failures = Max(0, @ - 1)]
    ELSE b

record_failure(b, t) ==
    [b EXCEPT !.failures = @ + 1,
              !.last_failure_time = t,
              !.state = IF b.failures + 1 >= failure_threshold THEN OPEN ELSE @]

\* a breaker that lets the next request through as soon as it is asked
can_attempt_NoTimeout(b, t) ==
    IF b.state = OPEN
    THEN [breaker |-> [b EXCEPT !.state = HALF_OPEN, !.half_open_successes = 0],
          value |-> TRUE]
    ELSE [breaker |-> b, value |-> TRUE]

\* can_attempt: the breaker it leaves and the value it returns
can_attempt(b, t) ==
    IF b.state = CLOSED THEN [breaker |-> b, value |-> TRUE]
    ELSE IF b.state = OPEN
    THEN IF b.last_failure_time # NoKey /\ t - b.last_failure_time >= timeout_seconds
         THEN [breaker |-> [b EXCEPT !.state = HALF_OPEN, !.half_open_successes = 0],
               value |-> TRUE]
         ELSE [breaker |-> b, value |-> FALSE]
    ELSE [breaker |-> b, value |-> TRUE]

BreakerUnchanged ==
    /\ UNCHANGED <<redis_key, handler, admitted>>
    /\ UNCHANGED planner_vars
    /\ UNCHANGED orch_vars
    /\ UNCHANGED bridge_vars
    /\ UNCHANGED request_vars

RecordSuccess ==
    /\ circuit_breaker' = record_success(circuit_breaker)
    /\ event' = "record_success"
    /\ UNCHANGED <<now, attempt>>
    /\ BreakerUnchanged

RecordFailure ==
    /\ circuit_breaker.failures < MaxFailures
    /\ circuit_breaker' = record_failure(circuit_breaker, now)
    /\ event' = "record_failure"
    /\ UNCHANGED <<now, attempt>>
    /\ BreakerUnchanged

CanAttempt ==
    /\ circuit_breaker' = can_attempt(circuit_breaker, now).breaker
    /\ attempt' = can_attempt(circuit_breaker, now).value
    /\ event' = "can_attempt"
    /\ UNCHANGED now
    /\ BreakerUnchanged

Tick ==
    /\ now < MaxTicks * TickSeconds
    /\ now' = now + TickSeconds
    /\ event' = "tick"
    /\ UNCHANGED <<circuit_breaker, attempt>>
    /\ BreakerUnchanged

InitBreaker ==
    /\ PlannerIdle
    /\ OrchIdle
    /\ BridgeIdle
    /\ NoRequest

NextBreaker ==
    \/ RecordSuccess
    \/ RecordFailure
    \/ CanAttempt
    \/ Tick

SpecBreaker == InitBreaker /\ [][NextBreaker]_vars

\* a call on an OPEN breaker: can_attempt returns true only once
\* timeout_seconds have passed since the last recorded failure, and leaves
\* the breaker OPEN when it returns false
OpenUntilTimeout ==
    (circuit_breaker.state = OPEN /\ event' = "can_attempt") =>
        /\ attempt' = (now - circuit_breaker.last_failure_time >= timeout_seconds)
        /\ ~attempt' => circuit_breaker'.state = OPEN

\* half_open_successes counts the successes recorded since the breaker
\* became HALF_OPEN, which it becomes from OPEN by can_attempt alone
CountsHalfOpenSuccesses ==
    /\ (circuit_breaker.state # HALF_OPEN /\ circuit_breaker'.state = HALF_OPEN) =>
           /\ circuit_breaker.state = OPEN
           /\ event' = "can_attempt"
           /\ circuit_breaker'.half_open_successes = 0
    /\ (circuit_breaker.state = HALF_OPEN /\ circuit_breaker'.state = HALF_OPEN) =>
           circuit_breaker'.half_open_successes =
               circuit_breaker.half_open_successes
                   + (IF event' = "record_success" THEN 1 ELSE 0)

\* the breaker becomes CLOSED only from HALF_OPEN, by the success that makes
\* half_open_attempts of them, with failures reset to 0
ClosesAfterSuccesses ==
    (circuit_breaker.state # CLOSED /\ circuit_breaker'.state = CLOSED) =>
        /\ circuit_breaker.state = HALF_OPEN
        /\ event' = "record_success"
        /\ circuit_breaker.half_open_successes + 1 = half_open_attempts
        /\ circuit_breaker'.failures = 0

\* a failure recorded while HALF_OPEN opens the breaker again
HalfOpenFailureOpens ==
    (circuit_breaker.state = HALF_OPEN /\ event' = "record_failure") =>
        circuit_breaker'.state = OPEN

\* C30: once OPEN, can_attempt returns false until timeout_seconds have
\* elapsed since the last recorded failure; the breaker returns to CLOSED
\* only from HALF_OPEN after half_open_attempts recorded successes, with
\* failures reset to 0; a failure recorded while HALF_OPEN puts it back to
\* OPEN.
C30_CircuitBreaker ==
    [][/\ OpenUntilTimeout
       /\ CountsHalfOpenSuccesses
       /\ ClosesAfterSuccesses
       /\ HalfOpenFailureOpens]_vars

\* a HALF_OPEN breaker one recorded success away from closing
C30_Witness ==
    /\ circuit_breaker.state = HALF_OPEN
    /\ circuit_breaker.half_open_successes = half_open_attempts - 1
    /\ event = "record_success"

====
